---- MODULE Spec2Model ----
(***************************************************************************)
(* Scheduling and conflict-resolution engine of the agenda assistant:      *)
(* MCPCalendarTools (src/mcp_models/calendar.py) over the tables tasks,    *)
(* calendar_events, meeting_links, event_collaborators and the external    *)
(* calendar, together with completion on the workboard                     *)
(* (src/pages/todo/ui.py), the Day Re-Planner                              *)
(* (src/pages/todays_plan/logic.py, ui.py) and the tool list and           *)
(* dispatcher (get_calendar_tools, execute_calendar_tool).                 *)
(*                                                                         *)
(* Representation.  A time of day (datetime.time) is its number of seconds *)
(* since midnight, a date is a day number, a datetime is                   *)
(* date * DAY + time.  A time string "HH:MM" is the sequence <<h, m>>,     *)
(* "HH:MM:SS" is <<h, m, s>>, and an absent or empty string argument is    *)
(* <<>>.  duration_hours is carried in seconds (hours * 3600), 0 standing  *)
(* for an absent or zero value.  Table rows are records; a SERIAL key is   *)
(* the row's index in the table.                                           *)
(*                                                                         *)
(* request records the last call's arguments together with what its        *)
(* environment did: fail (the local statement that raised), push (how the  *)
(* external insert ended), creds (whether the caller had credentials) and  *)
(* called (whether the handler called the external calendar).  For a       *)
(* re-plan it records the oracle's answer and the fetched today-set.       *)
(* An external event records owner and for_event: who pushed it and for    *)
(* which calendar_events row.                                              *)
(* sessions holds, for each chat session of a user that checks a slot and  *)
(* then books it, what the session was told by its calls; every statement  *)
(* of a handler runs on a connection of its own (src/utils/db.py), so      *)
(* calls of different sessions interleave.                                 *)
(***************************************************************************)
EXTENDS Integers, Sequences, FiniteSets, TLC

VARIABLES
    tasks,                \* table tasks
    calendar_events,      \* table calendar_events
    meeting_links,        \* table meeting_links
    event_collaborators,  \* table event_collaborators
    user_google_accounts, \* set of user ids with a row in user_google_accounts
    google_events,        \* the external calendar: events in creation order
    today,                \* the current date (datetime.now().date())
    request,              \* the arguments of the last tool call
    response,             \* the dict the last tool call returned
    sessions              \* the chat sessions that check a slot and then book it

vars == <<tasks, calendar_events, meeting_links, event_collaborators,
          user_google_accounts, google_events, today, request, response,
          sessions>>

\* Python None / SQL NULL.
None == -1

MINUTE == 60 * 1
HOUR == 60 * 60
DAY == 24 * 60 * 60

\* Bounds of the model.
MaxTasks == 2
MaxCreations == 1

\* ------------------------------------------------------------------------
\* Time normalisation
\* ------------------------------------------------------------------------

\* datetime.strptime(s, '%H:%M') or, failing that, '%H:%M:%S' succeeds.
ValidTimeStr(s) ==
    /\ Len(s) \in {2, 3}
    /\ s[1] \in 0..23
    /\ s[2] \in 0..59
    /\ Len(s) = 3 => s[3] \in 0..59

\* datetime.strptime(s, '%H:%M').time(), with the '%H:%M:%S' fallback.
ParseTime(s) ==
    IF Len(s) = 3 THEN s[1] * HOUR + s[2] * MINUTE + s[3]
    ELSE s[1] * HOUR + s[2] * MINUTE

\* time.strftime('%H:%M'): the seconds are dropped.
FormatHM(t) == <<t \div HOUR, (t % HOUR) \div MINUTE>>

\* datetime.combine(date, time)
Combine(date, t) == date * DAY + t

\* datetime.time() and datetime.date() of a datetime
TimeOf(dt) == dt % DAY
DateOf(dt) == dt \div DAY

\* duration_hours after lines 1195-1202: a falsy value becomes 2.0
DefaultedDuration(duration_hours) ==
    IF duration_hours # 0 THEN duration_hours ELSE 2 * HOUR

\* parsed_start_time of check_schedule_conflicts
ParsedStartTime(start_time) ==
    IF start_time # <<>> THEN ParseTime(start_time) ELSE None

\* parsed_end_time of check_schedule_conflicts: the given end, else the start
\* plus the duration, reduced to a time of day
ParsedEndTime(start_time, end_time, duration) ==
    IF end_time # <<>> THEN ParseTime(end_time)
    ELSE IF start_time # <<>>
         THEN TimeOf(Combine(0, ParseTime(start_time)) + duration)
         ELSE None

\* ------------------------------------------------------------------------
\* Conflict Detector and Slot Suggester (check_schedule_conflicts)
\* ------------------------------------------------------------------------

\* The business window scanned for free slots, and the scan's limits.
DayStart == 9 * HOUR
DayEnd == 18 * HOUR
SlotStep == 30 * MINUTE
MaxSuggestions == 3
DaysToCheck == 7

\* WHERE user_id = %s AND scheduled_date IS NOT NULL AND scheduled_date = %s
ConflictQueryNoUser(tbl, user_id, date) ==
    {i \in 1..Len(tbl) : tbl[i].scheduled_date # None /\ tbl[i].scheduled_date = date}
ConflictQuery(tbl, user_id, date) ==
    {i \in 1..Len(tbl) :
        /\ tbl[i].user_id = user_id
        /\ tbl[i].scheduled_date # None
        /\ tbl[i].scheduled_date = date}

\* ORDER BY start_time NULLS LAST: every order of the rows that SQL may
\* return (rows with equal start_time come in any order).
NullsLast(t) == IF t = None THEN DAY ELSE t
ResultOrders(tbl, ids) ==
    {o \in [1..Cardinality(ids) -> ids] :
        /\ \A i, j \in DOMAIN o : i # j => o[i] # o[j]
        /\ \A i, j \in DOMAIN o :
              i < j => NullsLast(tbl[o[i]].start_time) <= NullsLast(tbl[o[j]].start_time)}

\* The overlap test of lines 1259-1263 on times of day.
IsTimeOverlapClosed(parsed_start_time, parsed_end_time, start_time, end_time) ==
    /\ parsed_start_time # None /\ parsed_end_time # None
    /\ start_time # None /\ end_time # None
    /\ start_time <= parsed_end_time /\ end_time >= parsed_start_time
IsTimeOverlap(parsed_start_time, parsed_end_time, start_time, end_time) ==
    /\ parsed_start_time # None /\ parsed_end_time # None
    /\ start_time # None /\ end_time # None
    /\ start_time < parsed_end_time /\ end_time > parsed_start_time

\* One entry of the conflicts list (lines 1265-1276).
ConflictEntry(row, parsed_start_time, parsed_end_time) ==
    [task_id |-> row.task_id,
     scheduled_date |-> row.scheduled_date,
     due_date |-> row.due_date,
     start_time |-> IF row.start_time # None THEN FormatHM(row.start_time) ELSE <<>>,
     end_time |-> IF row.end_time # None THEN FormatHM(row.end_time) ELSE <<>>,
     status |-> row.status,
     is_time_overlap |->
         IsTimeOverlap(parsed_start_time, parsed_end_time, row.start_time, row.end_time)]

\* is_free of lines 1293-1301: the slot [current_time, slot_end_time) against
\* the listed conflicts, whose times are read back from their 'HH:MM' text.
SlotIsFree(current_time, slot_end_time, conflicts) ==
    \A k \in DOMAIN conflicts :
        (conflicts[k].start_time # <<>> /\ conflicts[k].end_time # <<>>) =>
            ~ (/\ current_time < ParseTime(conflicts[k].end_time)
               /\ slot_end_time > ParseTime(conflicts[k].start_time))

\* The while loop of lines 1285-1308.
RECURSIVE ScanSlots(_, _, _, _)
ScanSlots(current_time, suggested_times, conflicts, duration) ==
    IF current_time < DayEnd /\ Len(suggested_times) < MaxSuggestions
    THEN LET slot_end_time == TimeOf(Combine(0, current_time) + duration)
             found == IF SlotIsFree(current_time, slot_end_time, conflicts)
                      THEN Append(suggested_times, FormatHM(current_time))
                      ELSE suggested_times
         IN ScanSlots(TimeOf(Combine(0, current_time) + SlotStep), found,
                      conflicts, duration)
    ELSE suggested_times

\* suggested_times (lines 1279-1308)
SuggestTimes(has_time_overlap, parsed_start_time, conflicts, duration) ==
    IF has_time_overlap /\ parsed_start_time # None
    THEN ScanSlots(DayStart, <<>>, conflicts, duration)
    ELSE <<>>

\* SELECT COUNT(*) FROM tasks WHERE user_id = %s AND scheduled_date = %s
CountTasksAnyUser(tbl, user_id, date) ==
    Cardinality({i \in 1..Len(tbl) : tbl[i].scheduled_date = date})
CountTasks(tbl, user_id, date) ==
    Cardinality({i \in 1..Len(tbl) :
                    tbl[i].user_id = user_id /\ tbl[i].scheduled_date = date})

\* The while loop of lines 1316-1333.
RECURSIVE ScanDates(_, _, _, _, _)
ScanDates(tbl, user_id, current_day, days_checked, suggested_dates) ==
    IF Len(suggested_dates) < MaxSuggestions /\ days_checked < DaysToCheck
    THEN ScanDates(tbl, user_id, current_day + 1, days_checked + 1,
                   IF CountTasks(tbl, user_id, current_day) = 0
                   THEN Append(suggested_dates, current_day)
                   ELSE suggested_dates)
    ELSE suggested_dates

\* suggested_dates (lines 1311-1333)
SuggestDates(tbl, user_id, parsed_date, conflicts, suggested_times) ==
    IF Len(conflicts) > 0 /\ suggested_times = <<>>
    THEN ScanDates(tbl, user_id, parsed_date + 1, 0, <<>>)
    ELSE <<>>

\* The dict check_schedule_conflicts returns, for the rows in order `order`.
ConflictReport(tbl, user_id, parsed_date, start_time, end_time, duration_hours, order) ==
    LET duration == DefaultedDuration(duration_hours)
        parsed_start_time == ParsedStartTime(start_time)
        parsed_end_time == ParsedEndTime(start_time, end_time, duration)
        conflicts == [k \in DOMAIN order |->
                         ConflictEntry(tbl[order[k]], parsed_start_time, parsed_end_time)]
        has_time_overlap == \E k \in DOMAIN conflicts : conflicts[k].is_time_overlap
        suggested_times ==
            SuggestTimes(has_time_overlap, parsed_start_time, conflicts, duration)
        suggested_dates ==
            SuggestDates(tbl, user_id, parsed_date, conflicts, suggested_times)
    IN [op |-> "check_schedule_conflicts",
        success |-> TRUE,
        has_conflicts |-> Len(conflicts) > 0,
        has_time_overlap |-> has_time_overlap,
        conflict_count |-> Len(conflicts),
        conflicts |-> conflicts,
        suggested_times |-> suggested_times,
        suggested_dates |-> suggested_dates]

\* check_schedule_conflicts(scheduled_date, start_time, end_time, duration_hours)
\* called by user_id.  A time string that does not parse raises, and the
\* handler returns its failure dict (lines 1348-1355).
CheckScheduleConflicts(user_id, scheduled_date, start_time, end_time, duration_hours) ==
    /\ request' = [op |-> "check_schedule_conflicts", user_id |-> user_id,
                   scheduled_date |-> scheduled_date, start_time |-> start_time,
                   end_time |-> end_time, duration_hours |-> duration_hours]
    /\ IF (start_time # <<>> /\ ~ValidTimeStr(start_time))
          \/ (end_time # <<>> /\ ~ValidTimeStr(end_time))
       THEN response' = [op |-> "check_schedule_conflicts", success |-> FALSE,
                         error |-> "Failed to check conflicts"]
       ELSE \E order \in ResultOrders(tasks, ConflictQuery(tasks, user_id, scheduled_date)) :
                response' = ConflictReport(tasks, user_id, scheduled_date, start_time,
                                           end_time, duration_hours, order)
    /\ UNCHANGED <<tasks, calendar_events, meeting_links, event_collaborators,
                   user_google_accounts, google_events, today>>

\* ------------------------------------------------------------------------
\* Users, links and the external calendar
\* ------------------------------------------------------------------------

\* Table users: id -> email.  An e-mail outside the table is an outsider's.
Users == {1, 2}
EmailOf(u) == <<"user", u>>
ExternalEmail == <<"outsider", 0>>
UserOfEmail(email) ==
    IF \E u \in Users : EmailOf(u) = email
    THEN CHOOSE u \in Users : EmailOf(u) = email
    ELSE None

\* A link or code string is the sequence of its '/'-separated segments;
\* <<>> is the empty string or None.
MeetBase == <<"https:", "", "meet.google.com">>
\* s.split('/')[-1] if '/' in s else s
LastSegment(s) == IF Len(s) > 1 THEN <<s[Len(s)]>> ELSE s
\* s.startswith('http')
StartsWithHttp(s) == Len(s) > 0 /\ s[1] = "https:"

\* get_google_credentials(): None when the user has no row
HasCredentials(user_id) == user_id \in user_google_accounts

\* The phrases by which a creation message states the mirror's status.
SyncedPhrase == "Synced to Google Calendar!"
NotConnectedPhrase == "Google Calendar Not Connected"
ExpiredPhrase == "Google Calendar Authorization Expired"
SyncFailedPhrase == "Google Calendar Sync Failed"

\* An f-string of parts: the empty parts leave no trace in the message.
Message(parts) == SelectSeq(parts, LAMBDA x : x # "")

\* ------------------------------------------------------------------------
\* add_task_to_calendar
\* ------------------------------------------------------------------------

\* event_end of add_task_to_calendar (lines 178-183)
TaskEventEnd(parsed_scheduled_date, parsed_start_time, parsed_end_time, event_start) ==
    IF parsed_end_time # None
    THEN Combine(parsed_scheduled_date, parsed_end_time)
    ELSE event_start + HOUR

\* google_sync_message of add_task_to_calendar (lines 213-268), from whether
\* credentials exist, how the push ended and whether the reference was stored.
TaskSyncMessage(creds, push, ref_stored) ==
    IF ~creds THEN NotConnectedPhrase
    ELSE IF push = "ok" /\ ref_stored THEN SyncedPhrase
    ELSE IF push = "invalid_grant" THEN ExpiredPhrase
    ELSE SyncFailedPhrase

\* Where add_task_to_calendar leaves through its outer except clause:
\* "parse" before any write, else the failing statement `fail`, or "none".
TaskAbortOnSync(bad, fail, meeting_link, creds, push) ==
    IF bad THEN "parse"
    ELSE IF fail \in {"task", "event"} THEN fail
    ELSE IF fail = "link" /\ meeting_link # <<>> THEN "link"
    ELSE IF creds /\ push # "ok" THEN "push"
    ELSE "none"
TaskAbort(bad, fail, meeting_link, creds, push) ==
    IF bad THEN "parse"
    ELSE IF fail \in {"task", "event"} THEN fail
    ELSE IF fail = "link" /\ meeting_link # <<>> THEN "link"
    ELSE "none"

\* add_task_to_calendar called by user_id.  `fail` names the local statement
\* that raises (or "none"); `push` is how the external insert ends when it is
\* attempted: "ok", "invalid_grant" or "error".
AddTaskToCalendar(user_id, due_date, scheduled_date, start_time, end_time, meeting_link, fail, push) ==
    LET bad == \/ start_time # <<>> /\ ~ValidTimeStr(start_time)
               \/ end_time # <<>> /\ ~ValidTimeStr(end_time)
        parsed_due_date == IF due_date # None THEN due_date ELSE today + 1
        parsed_scheduled_date ==
            IF scheduled_date # None THEN scheduled_date ELSE parsed_due_date
        parsed_start_time == IF start_time # <<>> THEN ParseTime(start_time) ELSE None
        parsed_end_time == IF end_time # <<>> THEN ParseTime(end_time) ELSE None
        creds == HasCredentials(user_id)
        abort == TaskAbort(bad, fail, meeting_link, creds, push)
        task_id == Len(tasks) + 1
        event_id == Len(calendar_events) + 1
        event_start == Combine(parsed_scheduled_date,
                               IF parsed_start_time # None THEN parsed_start_time ELSE 0)
        event_end == TaskEventEnd(parsed_scheduled_date, parsed_start_time,
                                  parsed_end_time, event_start)
        wrote_task == abort \notin {"parse", "task"}
        wrote_event == wrote_task /\ abort # "event"
        wrote_link == wrote_event /\ meeting_link # <<>> /\ abort # "link"
        pushed == abort = "none" /\ creds /\ push = "ok"
        ref_stored == pushed /\ fail # "ref"
        google_event_id == IF pushed THEN Len(google_events) + 1 ELSE None
    IN
    /\ request' = [op |-> "add_task_to_calendar", user_id |-> user_id,
                   due_date |-> due_date, scheduled_date |-> scheduled_date,
                   start_time |-> start_time, end_time |-> end_time,
                   meeting_link |-> meeting_link, fail |-> fail, push |-> push,
                   creds |-> creds]
    /\ tasks' =
         IF wrote_task
         THEN Append(tasks, [task_id |-> task_id, user_id |-> user_id, status |-> "task",
                             due_date |-> parsed_due_date,
                             scheduled_date |-> parsed_scheduled_date,
                             start_time |-> parsed_start_time,
                             end_time |-> parsed_end_time])
         ELSE tasks
    /\ calendar_events' =
         IF wrote_event
         THEN Append(calendar_events,
                     [event_id |-> event_id, task_id |-> task_id, user_id |-> user_id,
                      start_time |-> parsed_start_time, end_time |-> parsed_end_time,
                      due_date |-> parsed_due_date,
                      scheduled_date |-> parsed_scheduled_date,
                      event_type |-> "task",
                      google_event_ref |-> IF ref_stored THEN google_event_id ELSE None,
                      is_calendar_synced |-> FALSE])
         ELSE calendar_events
    /\ meeting_links' =
         IF wrote_link
         THEN Append(meeting_links,
                     [link_id |-> Len(meeting_links) + 1, event_id |-> event_id,
                      platform |-> "custom", meeting_url |-> meeting_link,
                      meeting_code |-> LastSegment(meeting_link)])
         ELSE meeting_links
    /\ google_events' =
         IF pushed
         THEN Append(google_events,
                     [id |-> google_event_id, owner |-> user_id, summary |-> "task",
                      start |-> event_start, end |-> event_end,
                      location |-> meeting_link, conference |-> FALSE,
                      attendees |-> <<>>, for_event |-> event_id])
         ELSE google_events
    /\ response' =
         IF abort # "none"
         THEN [op |-> "add_task_to_calendar", success |-> FALSE,
               error |-> "Failed to add task"]
         ELSE [op |-> "add_task_to_calendar", success |-> TRUE,
               task_id |-> task_id, event_id |-> event_id,
               google_event_id |-> google_event_id,
               google_synced |-> google_event_id # None,
               message |-> Message(<<"Task added successfully!",
                                     TaskSyncMessage(creds, push, ref_stored)>>)]
    /\ UNCHANGED <<event_collaborators, user_google_accounts, today>>

\* ------------------------------------------------------------------------
\* add_collaborators_to_event and generate_meeting_link
\* ------------------------------------------------------------------------

\* SELECT collab_id FROM event_collaborators WHERE event_id = %s AND user_id = %s
HasCollaboratorNever(ec, event_id, user_id) == FALSE
HasCollaborator(ec, event_id, user_id) ==
    \E k \in DOMAIN ec : ec[k].event_id = event_id /\ ec[k].user_id = user_id

InsertCollaborator(ec, event_id, user_id) ==
    Append(ec, [collab_id |-> Len(ec) + 1, event_id |-> event_id, user_id |-> user_id])

\* The loop over collaborator_ids (lines 410-440).  An id outside users
\* violates the foreign key: the INSERT raises.
RECURSIVE AddCollaboratorIds(_, _, _, _)
AddCollaboratorIds(ec, event_id, ids, added) ==
    IF ids = <<>> THEN [ec |-> ec, added |-> added, raised |-> FALSE]
    ELSE LET collab_id == Head(ids)
         IN IF HasCollaborator(ec, event_id, collab_id)
            THEN AddCollaboratorIds(ec, event_id, Tail(ids), added)
            ELSE IF collab_id \notin Users
            THEN [ec |-> ec, added |-> added, raised |-> TRUE]
            ELSE AddCollaboratorIds(InsertCollaborator(ec, event_id, collab_id),
                                    event_id, Tail(ids),
                                    Append(added, [id |-> collab_id,
                                                   email |-> EmailOf(collab_id)]))

\* The loop over collaborator_emails (lines 444-483).
RECURSIVE AddCollaboratorEmails(_, _, _, _)
AddCollaboratorEmails(ec, event_id, emails, added) ==
    IF emails = <<>> THEN [ec |-> ec, added |-> added]
    ELSE LET email == Head(emails)
             user_id == UserOfEmail(email)
         IN IF user_id = None
            THEN AddCollaboratorEmails(ec, event_id, Tail(emails),
                                       Append(added, [id |-> None, email |-> email]))
            ELSE IF HasCollaborator(ec, event_id, user_id)
            THEN AddCollaboratorEmails(ec, event_id, Tail(emails), added)
            ELSE AddCollaboratorEmails(InsertCollaborator(ec, event_id, user_id),
                                       event_id, Tail(emails),
                                       Append(added, [id |-> user_id, email |-> email]))

\* _sync_attendees (lines 496-518): the external event `ref` is fetched, the
\* added e-mails are appended to its attendees and the event is updated.
SyncAttendeesByInsert(ge, ref, added) ==
    Append(ge, [ge[ref] EXCEPT !.id = Len(ge) + 1,
                               !.attendees = @ \o [k \in DOMAIN added |-> added[k].email]])
SyncAttendees(ge, ref, added) ==
    [ge EXCEPT ![ref].attendees = @ \o [k \in DOMAIN added |-> added[k].email]]

\* add_collaborators_to_event on the tables db = [ce, ml, ec, ge], called by
\* `caller`; `push` is how the external get/update ends when it is attempted.
\* Returns the tables, the returned dict, and whether the external calendar
\* was called.
AddCollaboratorsToEvent(db, caller, event_id, collaborator_ids, collaborator_emails, push) ==
    LET byId == AddCollaboratorIds(db.ec, event_id, collaborator_ids, <<>>)
        byEmail == AddCollaboratorEmails(byId.ec, event_id, collaborator_emails, byId.added)
        added == byEmail.added
        ref == IF event_id \in DOMAIN db.ce THEN db.ce[event_id].google_event_ref ELSE None
        called == ref # None /\ HasCredentials(caller)
        google_synced == called /\ push = "ok"
        ge == IF google_synced THEN SyncAttendees(db.ge, ref, added) ELSE db.ge
        \* a row for an event_id outside calendar_events violates the foreign key
        fk_raised ==
            /\ event_id \notin DOMAIN db.ce
            /\ \/ collaborator_ids # <<>>
               \/ \E k \in DOMAIN collaborator_emails :
                     UserOfEmail(collaborator_emails[k]) # None
    IN IF fk_raised
       THEN [db |-> db, called |-> FALSE,
             result |-> [success |-> FALSE, error |-> "Failed to add collaborators"]]
       ELSE IF byId.raised
       THEN [db |-> [db EXCEPT !.ec = byId.ec], called |-> FALSE,
             result |-> [success |-> FALSE, error |-> "Failed to add collaborators"]]
       ELSE [db |-> [db EXCEPT !.ec = byEmail.ec, !.ge = ge], called |-> called,
             result |-> [success |-> TRUE, added_count |-> Len(added),
                         collaborators |-> added, google_synced |-> google_synced]]

\* INSERT INTO meeting_links ... ON CONFLICT (event_id) DO UPDATE
\* SET meeting_code = EXCLUDED.meeting_code, meeting_url = EXCLUDED.meeting_url
UpsertMeetingLink(ml, event_id, platform, meeting_code, meeting_url) ==
    IF \E k \in DOMAIN ml : ml[k].event_id = event_id
    THEN [k \in DOMAIN ml |->
             IF ml[k].event_id = event_id
             THEN [ml[k] EXCEPT !.meeting_code = meeting_code, !.meeting_url = meeting_url]
             ELSE ml[k]]
    ELSE Append(ml, [link_id |-> Len(ml) + 1, event_id |-> event_id,
                     platform |-> platform, meeting_url |-> meeting_url,
                     meeting_code |-> meeting_code])

\* The conference the external calendar creates on a createRequest.
ConferenceId == <<"generated-code">>
ConferenceUri == MeetBase \o ConferenceId

\* generate_meeting_link on the tables db, called by `caller` (lines 561-687).
\* Returns the tables, the returned dict, and whether the external calendar
\* was called.
GenerateMeetingLink(db, caller, event_id, existing_code, push) ==
    IF existing_code # <<>> /\ event_id \notin DOMAIN db.ce
    THEN \* the INSERT violates the foreign key on event_id
         [db |-> db, called |-> FALSE,
          result |-> [success |-> FALSE, error |-> "Failed to generate meeting link"]]
    ELSE IF existing_code # <<>>
    THEN LET meeting_url == IF StartsWithHttp(existing_code) THEN existing_code
                            ELSE MeetBase \o existing_code
             meeting_code == IF StartsWithHttp(existing_code)
                             THEN LastSegment(existing_code) ELSE existing_code
         IN [db |-> [db EXCEPT !.ml = UpsertMeetingLink(db.ml, event_id, "custom",
                                                        meeting_code, meeting_url)],
             called |-> FALSE,
             result |-> [success |-> TRUE, meeting_url |-> meeting_url,
                         meeting_code |-> meeting_code, platform |-> "custom"]]
    ELSE IF ~HasCredentials(caller)
    THEN [db |-> db, called |-> FALSE,
          result |-> [success |-> FALSE, error |-> "Google Calendar not connected"]]
    ELSE IF event_id \notin DOMAIN db.ce \/ db.ce[event_id].google_event_ref = None
    THEN [db |-> db, called |-> FALSE,
          result |-> [success |-> FALSE,
                      error |-> "Event not found or not synced to Google Calendar"]]
    ELSE IF push # "ok"
    THEN [db |-> db, called |-> TRUE,
          result |-> [success |-> FALSE, error |-> "Failed to generate Google Meet link"]]
    ELSE [db |-> [db EXCEPT
                    !.ge = [@ EXCEPT ![db.ce[event_id].google_event_ref].conference = TRUE],
                    !.ml = UpsertMeetingLink(@, event_id, "google_meet",
                                             ConferenceId, ConferenceUri)],
          called |-> TRUE,
          result |-> [success |-> TRUE, meeting_url |-> ConferenceUri,
                      meeting_code |-> ConferenceId, platform |-> "google_meet"]]

\* ------------------------------------------------------------------------
\* schedule_meeting
\* ------------------------------------------------------------------------

\* parsed_end_time of schedule_meeting (lines 876-894)
MeetingEndTime(parsed_scheduled_date, parsed_start_time, end_time, duration_hours) ==
    IF end_time # <<>> THEN ParseTime(end_time)
    ELSE TimeOf(Combine(parsed_scheduled_date, parsed_start_time) + duration_hours)

\* event_end of schedule_meeting (lines 898-902)
MeetingEventEndSameDay(parsed_scheduled_date, parsed_start_time, parsed_end_time) ==
    Combine(parsed_scheduled_date, parsed_end_time)
MeetingEventEnd(parsed_scheduled_date, parsed_start_time, parsed_end_time) ==
    Combine(parsed_scheduled_date, parsed_end_time)
    + (IF parsed_end_time < parsed_start_time THEN DAY ELSE 0)

\* google_sync_message of schedule_meeting (lines 947-1018): nothing when the
\* user has no credentials; the failure text when the push or a statement
\* after it raised.
MeetingSyncMessage(creds, push, raised_after_push) ==
    IF ~creds THEN ""
    ELSE IF push = "ok" /\ ~raised_after_push THEN SyncedPhrase
    ELSE SyncFailedPhrase

\* schedule_meeting called by user_id.  `fail` names the local statement of
\* schedule_meeting that raises (or "none"); `push` is how the external insert
\* ends, `push_attendees` how the attendee update of add_collaborators_to_event
\* ends.
ScheduleMeeting(user_id, scheduled_date, start_time, end_time, due_date, collaborator_ids, collaborator_emails, meeting_code, auto_generate_link, duration_hours, fail, push, push_attendees) ==
    LET bad == \/ ~ValidTimeStr(start_time)
               \/ end_time # <<>> /\ ~ValidTimeStr(end_time)
        parsed_scheduled_date == scheduled_date
        parsed_due_date == IF due_date # None THEN due_date ELSE parsed_scheduled_date
        parsed_start_time == ParseTime(start_time)
        parsed_end_time == MeetingEndTime(parsed_scheduled_date, parsed_start_time,
                                          end_time, duration_hours)
        event_start == Combine(parsed_scheduled_date, parsed_start_time)
        event_end == MeetingEventEnd(parsed_scheduled_date, parsed_start_time,
                                     parsed_end_time)
        creds == HasCredentials(user_id)
        abort == IF bad THEN "parse"
                 ELSE IF fail \in {"task", "event"} THEN fail
                 ELSE "none"
        task_id == Len(tasks) + 1
        event_id == Len(calendar_events) + 1
        wrote_task == abort \notin {"parse", "task"}
        wrote_event == wrote_task /\ abort # "event"
        pushed == abort = "none" /\ creds /\ push = "ok"
        ref_stored == pushed /\ fail # "ref"
        with_conference == auto_generate_link /\ meeting_code = <<>>
        meet_stored == ref_stored /\ with_conference /\ fail # "meet"
        raised_after_push == fail = "ref" \/ (with_conference /\ fail = "meet")
        google_event_id == IF pushed THEN Len(google_events) + 1 ELSE None
        db0 == [ce |-> IF wrote_event
                       THEN Append(calendar_events,
                              [event_id |-> event_id, task_id |-> task_id,
                               user_id |-> user_id,
                               start_time |-> parsed_start_time,
                               end_time |-> parsed_end_time,
                               due_date |-> parsed_due_date,
                               scheduled_date |-> parsed_scheduled_date,
                               event_type |-> "meeting",
                               google_event_ref |-> IF ref_stored THEN google_event_id
                                                    ELSE None,
                               is_calendar_synced |-> ref_stored])
                       ELSE calendar_events,
                ml |-> IF meet_stored
                       THEN Append(meeting_links,
                              [link_id |-> Len(meeting_links) + 1, event_id |-> event_id,
                               platform |-> "google_meet",
                               meeting_url |-> ConferenceUri,
                               meeting_code |-> ConferenceId])
                       ELSE meeting_links,
                ec |-> event_collaborators,
                ge |-> IF pushed
                       THEN Append(google_events,
                              [id |-> google_event_id, owner |-> user_id,
                               summary |-> "meeting",
                               start |-> event_start, end |-> event_end,
                               location |-> <<>>, conference |-> with_conference,
                               attendees |-> <<>>, for_event |-> event_id])
                       ELSE google_events]
        with_collaborators ==
            abort = "none" /\ (collaborator_ids # <<>> \/ collaborator_emails # <<>>)
        collab == IF with_collaborators
                  THEN AddCollaboratorsToEvent(db0, user_id, event_id, collaborator_ids,
                                               collaborator_emails, push_attendees)
                  ELSE [db |-> db0, result |-> [success |-> FALSE]]
        with_code == abort = "none" /\ meeting_code # <<>> /\ ~auto_generate_link
        link == IF with_code
                THEN GenerateMeetingLink(collab.db, user_id, event_id, meeting_code, "ok")
                ELSE [db |-> collab.db, result |-> [success |-> FALSE]]
        db == link.db
    IN
    /\ request' = [op |-> "schedule_meeting", user_id |-> user_id,
                   scheduled_date |-> scheduled_date, start_time |-> start_time,
                   end_time |-> end_time, due_date |-> due_date,
                   collaborator_ids |-> collaborator_ids,
                   collaborator_emails |-> collaborator_emails,
                   meeting_code |-> meeting_code,
                   auto_generate_link |-> auto_generate_link,
                   duration_hours |-> duration_hours,
                   fail |-> fail, push |-> push, creds |-> creds]
    /\ tasks' =
         IF wrote_task
         THEN Append(tasks, [task_id |-> task_id, user_id |-> user_id,
                             status |-> "meeting", due_date |-> parsed_due_date,
                             scheduled_date |-> parsed_scheduled_date,
                             start_time |-> parsed_start_time,
                             end_time |-> parsed_end_time])
         ELSE tasks
    /\ calendar_events' = db.ce
    /\ meeting_links' = db.ml
    /\ event_collaborators' = db.ec
    /\ google_events' = db.ge
    /\ response' =
         IF abort # "none"
         THEN [op |-> "schedule_meeting", success |-> FALSE,
               error |-> "Failed to schedule meeting"]
         ELSE [op |-> "schedule_meeting", success |-> TRUE,
               event_id |-> event_id, google_event_id |-> google_event_id,
               message |-> Message(<<"Meeting scheduled",
                   MeetingSyncMessage(creds, push, raised_after_push),
                   IF meet_stored /\ ~raised_after_push THEN "Google Meet link" ELSE "",
                   IF collab.result.success THEN "Added collaborators" ELSE "",
                   IF link.result.success THEN "Meeting link attached" ELSE "">>)]
    /\ UNCHANGED <<user_google_accounts, today>>

\* The OAuth flow of the calendar page stores the user's tokens
\* (save_google_token_db); the authorization page removes them
\* (disconnect_google).
ConnectGoogle(user_id) ==
    /\ user_id \notin user_google_accounts
    /\ user_google_accounts' = user_google_accounts \cup {user_id}
    /\ UNCHANGED <<tasks, calendar_events, meeting_links, event_collaborators,
                   google_events, today, request, response>>

DisconnectGoogleClearingRefs(user_id) ==
    /\ user_id \in user_google_accounts
    /\ user_google_accounts' = user_google_accounts \ {user_id}
    /\ calendar_events' =
         [e \in DOMAIN calendar_events |->
             IF calendar_events[e].user_id = user_id
             THEN [calendar_events[e] EXCEPT !.google_event_ref = None]
             ELSE calendar_events[e]]
    /\ UNCHANGED <<tasks, meeting_links, event_collaborators, google_events, today,
                   request, response>>
DisconnectGoogle(user_id) ==
    /\ user_id \in user_google_accounts
    /\ user_google_accounts' = user_google_accounts \ {user_id}
    /\ UNCHANGED <<tasks, calendar_events, meeting_links, event_collaborators,
                   google_events, today, request, response>>

\* ------------------------------------------------------------------------
\* The tools called on their own
\* ------------------------------------------------------------------------

\* The four tables the sub-handlers work on.
Tables ==
    [ce |-> calendar_events, ml |-> meeting_links, ec |-> event_collaborators,
     ge |-> google_events]

\* add_collaborators_to_event called as a tool by `caller`.  request.called
\* records whether the handler called the external calendar.
CallAddCollaboratorsToEvent(caller, event_id, collaborator_ids, collaborator_emails, push) ==
    LET out == AddCollaboratorsToEvent(Tables, caller, event_id, collaborator_ids,
                                       collaborator_emails, push)
    IN
    /\ request' = [op |-> "add_collaborators_to_event", user_id |-> caller,
                   event_id |-> event_id, collaborator_ids |-> collaborator_ids,
                   collaborator_emails |-> collaborator_emails, push |-> push,
                   creds |-> HasCredentials(caller), called |-> out.called]
    /\ response' = out.result @@ [op |-> "add_collaborators_to_event"]
    /\ event_collaborators' = out.db.ec
    /\ google_events' = out.db.ge
    /\ UNCHANGED <<tasks, calendar_events, meeting_links, user_google_accounts, today>>

\* generate_meeting_link called as a tool by `caller`.
CallGenerateMeetingLink(caller, event_id, existing_code, push) ==
    LET out == GenerateMeetingLink(Tables, caller, event_id, existing_code, push)
    IN
    /\ request' = [op |-> "generate_meeting_link", user_id |-> caller,
                   event_id |-> event_id, existing_code |-> existing_code,
                   push |-> push, creds |-> HasCredentials(caller),
                   called |-> out.called]
    /\ response' = out.result @@ [op |-> "generate_meeting_link"]
    /\ meeting_links' = out.db.ml
    /\ google_events' = out.db.ge
    /\ UNCHANGED <<tasks, calendar_events, event_collaborators, user_google_accounts,
                   today>>

\* ------------------------------------------------------------------------
\* save_todo_only
\* ------------------------------------------------------------------------

\* The row save_todo_only inserts (lines 763-776).
TodoRow(task_id, user_id, due_date, scheduled_date, start_time, end_time) ==
    [task_id |-> task_id, user_id |-> user_id, status |-> "todo",
     due_date |-> due_date,
     scheduled_date |-> IF scheduled_date # None THEN scheduled_date ELSE due_date,
     start_time |-> IF start_time # <<>> THEN ParseTime(start_time) ELSE None,
     end_time |-> IF end_time # <<>> THEN ParseTime(end_time) ELSE None]

\* save_todo_only called by user_id; `fail` = "task" when the INSERT raises.
SaveTodoAndEvent(user_id, due_date, scheduled_date, start_time, end_time, fail) ==
    /\ request' = [op |-> "save_todo_only", user_id |-> user_id,
                   due_date |-> due_date, scheduled_date |-> scheduled_date,
                   start_time |-> start_time, end_time |-> end_time, fail |-> fail,
                   creds |-> HasCredentials(user_id)]
    /\ tasks' = Append(tasks, TodoRow(Len(tasks) + 1, user_id, due_date, scheduled_date,
                                      start_time, end_time))
    /\ calendar_events' =
         Append(calendar_events,
                [event_id |-> Len(calendar_events) + 1, task_id |-> Len(tasks) + 1,
                 user_id |-> user_id, start_time |-> None, end_time |-> None,
                 due_date |-> due_date, scheduled_date |-> scheduled_date,
                 event_type |-> "task", google_event_ref |-> None,
                 is_calendar_synced |-> FALSE])
    /\ response' = [op |-> "save_todo_only", success |-> TRUE,
                    task_id |-> Len(tasks) + 1]
    /\ UNCHANGED <<meeting_links, event_collaborators, user_google_accounts,
                   google_events, today>>
SaveTodoOnly(user_id, due_date, scheduled_date, start_time, end_time, fail) ==
    LET bad == \/ start_time # <<>> /\ ~ValidTimeStr(start_time)
               \/ end_time # <<>> /\ ~ValidTimeStr(end_time)
        raised == bad \/ fail = "task"
        task_id == Len(tasks) + 1
    IN
    /\ request' = [op |-> "save_todo_only", user_id |-> user_id,
                   due_date |-> due_date, scheduled_date |-> scheduled_date,
                   start_time |-> start_time, end_time |-> end_time, fail |-> fail,
                   creds |-> HasCredentials(user_id)]
    /\ tasks' =
         IF raised THEN tasks
         ELSE Append(tasks, TodoRow(task_id, user_id, due_date, scheduled_date,
                                    start_time, end_time))
    /\ response' =
         IF raised
         THEN [op |-> "save_todo_only", success |-> FALSE,
               error |-> "Failed to save task"]
         ELSE [op |-> "save_todo_only", success |-> TRUE, task_id |-> task_id]
    /\ UNCHANGED <<calendar_events, meeting_links, event_collaborators,
                   user_google_accounts, google_events, today>>

\* ------------------------------------------------------------------------
\* Completion (workboard) and the Day Re-Planner (today's plan page)
\* ------------------------------------------------------------------------

\* mark_task_complete: UPDATE tasks SET status = 'completed' WHERE task_id = %s
MarkTaskComplete(task_id) ==
    /\ task_id \in DOMAIN tasks
    /\ tasks' = [tasks EXCEPT ![task_id].status = "completed"]
    /\ request' = [op |-> "mark_task_complete", task_id |-> task_id]
    /\ response' = [op |-> "mark_task_complete", success |-> TRUE]
    /\ UNCHANGED <<calendar_events, meeting_links, event_collaborators,
                   user_google_accounts, google_events, today>>

\* fetch_todays_items: the user's rows scheduled today or not scheduled at all.
FetchTodaysItems(tbl, user_id, day) ==
    {i \in DOMAIN tbl :
        /\ tbl[i].user_id = user_id
        /\ (tbl[i].scheduled_date = day \/ tbl[i].scheduled_date = None)}

\* What the oracle answers: text json.loads rejects ("unparseable"), a JSON
\* array of entries ("array"), or another truthy JSON value ("scalar").
\* generate_schedule_with_ai returns the parsed value, [] when it cannot parse.
GenerateScheduleDefaulting(items, oracle) ==
    IF items = {} THEN [list |-> TRUE, entries |-> <<>>]
    ELSE IF oracle.kind = "unparseable"
    THEN [list |-> TRUE,
          entries |-> <<[task_id |-> CHOOSE i \in items : TRUE,
                         start_time |-> <<9, 0, 0>>, end_time |-> <<10, 0, 0>>,
                         is_meeting |-> FALSE]>>]
    ELSE [list |-> oracle.kind = "array", entries |-> oracle.entries]
GenerateScheduleWithAi(items, oracle) ==
    IF items = {} THEN [list |-> TRUE, entries |-> <<>>]
    ELSE IF oracle.kind = "unparseable" THEN [list |-> TRUE, entries |-> <<>>]
    ELSE [list |-> oracle.kind = "array", entries |-> oracle.entries]

\* One UPDATE of update_task_times (lines 59-73): the row with that task_id,
\* whoever owns it; no row when the id is unknown.
UpdateTaskRow(tbl, update, day) ==
    [i \in DOMAIN tbl |->
        IF tbl[i].task_id = update.task_id
        THEN [tbl[i] EXCEPT !.start_time = ParseTime(update.start_time),
                            !.end_time = ParseTime(update.end_time),
                            !.scheduled_date = day,
                            !.status = IF update.is_meeting THEN "meeting" ELSE "task"]
        ELSE tbl[i]]

\* update_task_times: the updates are applied in order, each committed on its
\* own; a time the database rejects raises, and the function returns False.
RECURSIVE UpdateTaskTimes(_, _, _)
UpdateTaskTimes(tbl, updates, day) ==
    IF updates = <<>> THEN [tasks |-> tbl, ok |-> TRUE]
    ELSE LET update == Head(updates)
         IN IF ~ValidTimeStr(update.start_time) \/ ~ValidTimeStr(update.end_time)
            THEN [tasks |-> tbl, ok |-> FALSE]
            ELSE UpdateTaskTimes(UpdateTaskRow(tbl, update, day), Tail(updates), day)

\* The "Generate Plan" button of distinct_todays_plan_page (lines 19-42) for
\* the logged-in user, `oracle` being what the language model answers.
DistinctTodaysPlanPage(user_id, oracle) ==
    LET items == FetchTodaysItems(tasks, user_id, today)
        schedule_updates == GenerateScheduleWithAi(items, oracle)
        truthy == ~schedule_updates.list \/ schedule_updates.entries # <<>>
        upd == IF schedule_updates.list
               THEN UpdateTaskTimes(tasks, schedule_updates.entries, today)
               ELSE [tasks |-> tasks, ok |-> FALSE]
        shown == IF items = {} THEN "No tasks or meetings found for today"
                 ELSE IF ~truthy THEN "AI couldn't generate a schedule"
                 ELSE IF upd.ok THEN "Plan generated and updated"
                 ELSE "Failed to update database"
    IN
    /\ request' = [op |-> "generate_plan", user_id |-> user_id, oracle |-> oracle,
                   items |-> items]
    /\ tasks' = IF items # {} /\ truthy THEN upd.tasks ELSE tasks
    /\ response' = [op |-> "generate_plan", success |-> (items # {} /\ truthy /\ upd.ok),
                    shown |-> shown]
    /\ UNCHANGED <<calendar_events, meeting_links, event_collaborators,
                   user_google_accounts, google_events, today>>

\* ------------------------------------------------------------------------
\* The read-only tools, the tool list and the dispatcher
\* ------------------------------------------------------------------------

\* get_collaborators called by user_id: `found` are the friends of the user
\* that match the search (the friend network is not part of this model).
GetCollaborators(user_id, found) ==
    /\ request' = [op |-> "get_collaborators", user_id |-> user_id]
    /\ response' = [op |-> "get_collaborators", success |-> TRUE,
                    collaborators |-> found]
    /\ UNCHANGED <<tasks, calendar_events, meeting_links, event_collaborators,
                   user_google_accounts, google_events, today>>

\* get_calendar_events called by user_id: the user's calendar_events rows
\* scheduled from start_date to end_date (lines 1090-1115).
GetCalendarEvents(user_id, start_date, end_date) ==
    /\ request' = [op |-> "get_calendar_events", user_id |-> user_id,
                   start_date |-> start_date, end_date |-> end_date]
    /\ response' =
         LET found == {e \in DOMAIN calendar_events :
                          /\ calendar_events[e].user_id = user_id
                          /\ calendar_events[e].scheduled_date >= start_date
                          /\ calendar_events[e].scheduled_date <= end_date}
         IN [op |-> "get_calendar_events", success |-> TRUE,
             count |-> Cardinality(found), events |-> found]
    /\ UNCHANGED <<tasks, calendar_events, meeting_links, event_collaborators,
                   user_google_accounts, google_events, today>>

\* The names get_calendar_tools advertises (lines 1373-1584).
AdvertisedTools ==
    {"get_calendar_events", "check_schedule_conflicts", "add_task_to_calendar",
     "get_collaborators", "add_collaborators_to_event", "generate_meeting_link",
     "save_todo_only", "schedule_meeting"}

\* execute_calendar_tool(user_id, tool_name, parameters): the if/elif chain of
\* lines 1662-1680.  The called method runs with no failing statement and a
\* working external calendar.
ExecuteCalendarTool(user_id, tool_name, parameters) ==
    IF tool_name = "add_task_to_calendar"
    THEN AddTaskToCalendar(user_id, parameters.due_date, parameters.scheduled_date,
                           parameters.start_time, parameters.end_time,
                           parameters.meeting_link, "none", "ok")
    ELSE IF tool_name = "get_collaborators"
    THEN \E found \in SUBSET (Users \ {user_id}) : GetCollaborators(user_id, found)
    ELSE IF tool_name = "add_collaborators_to_event"
    THEN CallAddCollaboratorsToEvent(user_id, parameters.event_id,
                                     parameters.collaborator_ids,
                                     parameters.collaborator_emails, "ok")
    ELSE IF tool_name = "generate_meeting_link"
    THEN CallGenerateMeetingLink(user_id, parameters.event_id, parameters.existing_code,
                                 "ok")
    ELSE IF tool_name = "save_todo_only"
    THEN SaveTodoOnly(user_id, parameters.due_date, parameters.scheduled_date,
                      parameters.start_time, parameters.end_time, "none")
    ELSE IF tool_name = "schedule_meeting"
    THEN ScheduleMeeting(user_id, parameters.scheduled_date, parameters.start_time,
                         parameters.end_time, parameters.due_date,
                         parameters.collaborator_ids, parameters.collaborator_emails,
                         parameters.meeting_code, parameters.auto_generate_link,
                         parameters.duration_hours, "none", "ok", "ok")
    ELSE IF tool_name = "get_calendar_events"
    THEN GetCalendarEvents(user_id, parameters.start_date, parameters.end_date)
    ELSE /\ request' = [op |-> tool_name, user_id |-> user_id]
         /\ response' = [op |-> "execute_calendar_tool", success |-> FALSE,
                         error |-> "Unknown calendar tool"]
         /\ UNCHANGED <<tasks, calendar_events, meeting_links, event_collaborators,
                        user_google_accounts, google_events, today>>

\* ------------------------------------------------------------------------
\* Chat sessions
\* ------------------------------------------------------------------------

MaxSessions == 2

\* The chat sessions of one user that run at the same time.  A session holds
\* what it asked for and what it was told: the window it proposed, the
\* has_time_overlap of the report it got, and the task_id of the item it made.
Sessions == 1..MaxSessions
IdleSession ==
    [pc |-> "idle", window |-> <<>>, has_time_overlap |-> FALSE, task_id |-> None]

\* ------------------------------------------------------------------------
\* Initial state
\* ------------------------------------------------------------------------

Init ==
    /\ tasks = <<>>
    /\ calendar_events = <<>>
    /\ meeting_links = <<>>
    /\ event_collaborators = <<>>
    /\ user_google_accounts = {}
    /\ google_events = <<>>
    /\ today = 0
    /\ request = [op |-> "none"]
    /\ response = [op |-> "none", success |-> FALSE]
    /\ sessions = [p \in Sessions |-> IdleSession]

\* ------------------------------------------------------------------------
\* Conflict checking over a user's schedule
\* ------------------------------------------------------------------------

\* Items created through add_task_to_calendar: <<user, scheduled_date, start, end>>.
ScheduleInputs ==
    { <<1, 0, <<10, 0>>, <<11, 0>>>>,          \* an ordinary window
      <<1, 0, <<9, 0>>, <<18, 0>>>>,           \* fills the business window
      <<1, 0, <<10, 0, 50>>, <<10, 30, 30>>>>, \* times with seconds
      <<1, 0, <<23, 0>>, <<1, 0>>>>,           \* overnight: ends on the next day
      <<1, 0, <<>>, <<>>>>,                    \* untimed
      <<1, 0, <<15, 0>>, <<>>>>,               \* a start without an end
      <<1, 1, <<10, 0>>, <<11, 0>>>>,          \* the next day
      <<1, None, <<>>, <<>>>>,                 \* no date: defaults to tomorrow
      <<1, 2, <<>>, <<>>>>,
      <<2, 0, <<10, 0>>, <<11, 0>>>>,          \* another user's items
      <<2, 1, <<>>, <<>>>> }

\* Proposals: <<user, scheduled_date, start, end, duration_hours in seconds>>.
Proposals ==
    { <<1, 0, <<10, 0>>, <<11, 0>>, 0>>,
      <<1, 0, <<11, 0>>, <<12, 0>>, 2 * HOUR>>,     \* touches 10:00-11:00 at its end
      <<1, 0, <<9, 0>>, <<10, 0>>, HOUR>>,          \* touches it at its start
      <<1, 0, <<10, 15>>, <<10, 30>>, 30 * MINUTE>>,
      <<1, 0, <<10, 15>>, <<10, 30>>, 36>>,         \* duration_hours = 0.01
      <<1, 0, <<10, 30>>, <<10, 45>>, 16 * HOUR>>,  \* a slot that crosses midnight
      <<1, 0, <<9, 30>>, <<11, 30>>, 30 * MINUTE>>, \* longer than its duration_hours
      <<1, 0, <<10, 30>>, <<>>, 2 * HOUR>>,         \* end derived from the duration
      <<1, 0, <<23, 30>>, <<>>, HOUR>>,             \* derived end crosses midnight
      <<1, 0, <<23, 30>>, <<23, 45>>, 0>>,
      <<1, 0, <<>>, <<>>, 0>>,                      \* no start: co-occupancy only
      <<1, 0, <<25, 0>>, <<>>, 0>>,                 \* an unparsable time
      <<2, 0, <<10, 30>>, <<11, 30>>, 0>>,
      <<1, 1, <<10, 30>>, <<11, 30>>, 0>> }

CreateItem ==
    /\ Len(tasks) < MaxTasks
    /\ \E i \in ScheduleInputs :
          AddTaskToCalendar(i[1], None, i[2], i[3], i[4], <<>>, "none", "ok")
    /\ UNCHANGED sessions

CheckConflicts ==
    /\ \E p \in Proposals : CheckScheduleConflicts(p[1], p[2], p[3], p[4], p[5])
    /\ UNCHANGED sessions

NextConflicts == CreateItem \/ CheckConflicts

SpecConflicts == Init /\ [][NextConflicts]_vars

\* ------------------------------------------------------------------------
\* Creation and external sync
\* ------------------------------------------------------------------------

\* How a call's environment behaves: <<the local statement that raises,
\* the external insert's outcome, the external attendee update's outcome>>.
TaskScenarios ==
    { <<"none", "ok", "ok">>, <<"none", "invalid_grant", "ok">>, <<"none", "error", "ok">>,
      <<"task", "ok", "ok">>, <<"event", "ok", "ok">>, <<"link", "ok", "ok">>,
      <<"ref", "ok", "ok">> }
MeetingScenarios ==
    { <<"none", "ok", "ok">>, <<"none", "invalid_grant", "ok">>, <<"none", "error", "ok">>,
      <<"none", "ok", "error">>,
      <<"task", "ok", "ok">>, <<"event", "ok", "ok">>, <<"ref", "ok", "ok">>,
      <<"meet", "ok", "ok">> }

MeetingUrl == MeetBase \o <<"abc-defg">>

\* add_task_to_calendar calls: <<user, due_date, scheduled_date, start, end, link>>.
TaskCalls ==
    { <<1, None, 0, <<14, 0>>, <<16, 0>>, <<>>>>,
      <<1, None, 0, <<23, 0>>, <<1, 0>>, <<>>>>,     \* end_time earlier than start_time
      <<1, 2, None, <<>>, <<>>, MeetingUrl>>,        \* untimed, with a meeting link
      <<2, None, 0, <<9, 30>>, <<>>, <<>>>>,         \* a start without an end
      <<1, None, 0, <<25, 0>>, <<>>, <<>>>> }        \* an unparsable time

\* schedule_meeting calls: <<user, scheduled_date, start, end, due_date,
\* collaborator_ids, collaborator_emails, meeting_code, auto_generate_link,
\* duration_hours in seconds>>.
MeetingCalls ==
    { <<1, 0, <<23, 0>>, <<1, 0>>, None, <<>>, <<>>, <<>>, TRUE, 2 * HOUR>>,
      <<1, 0, <<10, 0>>, <<12, 0>>, 1, <<2>>, <<ExternalEmail>>, <<"abc-defg">>,
        FALSE, 2 * HOUR>>,
      <<2, 1, <<10, 0, 30>>, <<10, 0, 30>>, None, <<>>, <<EmailOf(1)>>, <<"abc-defg">>,
        TRUE, 2 * HOUR>>,
      <<1, 0, <<10, 0>>, <<26, 0>>, None, <<>>, <<>>, <<>>, TRUE, 2 * HOUR>> }

\* schedule_meeting calls without an end_time: <<start, duration_hours in seconds>>.
MeetingStarts == { <<0, 0>>, <<10, 0>>, <<23, 0>>, <<23, 59, 59>> }
MeetingDurations == { 1, 90 * MINUTE, 2 * HOUR, DAY - 1 }

CreateTask ==
    /\ Len(tasks) < MaxCreations
    /\ \E c \in TaskCalls, e \in TaskScenarios :
          AddTaskToCalendar(c[1], c[2], c[3], c[4], c[5], c[6], e[1], e[2])
    /\ UNCHANGED sessions

CreateMeeting ==
    /\ Len(tasks) < MaxCreations
    /\ \E c \in MeetingCalls, e \in MeetingScenarios :
          ScheduleMeeting(c[1], c[2], c[3], c[4], c[5], c[6], c[7], c[8], c[9], c[10],
                          e[1], e[2], e[3])
    /\ UNCHANGED sessions

CreateTimedMeeting ==
    /\ Len(tasks) < MaxCreations
    /\ \E s \in MeetingStarts, d \in MeetingDurations :
          ScheduleMeeting(1, 0, s, <<>>, None, <<>>, <<>>, <<>>, TRUE, d,
                          "none", "ok", "ok")
    /\ UNCHANGED sessions

Connect ==
    /\ \E u \in Users : ConnectGoogle(u)
    /\ UNCHANGED sessions

Disconnect ==
    /\ \E u \in Users : DisconnectGoogle(u)
    /\ UNCHANGED sessions

Next == CreateTask \/ CreateMeeting \/ CreateTimedMeeting \/ Connect \/ Disconnect

Spec == Init /\ [][Next]_vars

\* ------------------------------------------------------------------------
\* A day of planning: items are created, completed and re-planned
\* ------------------------------------------------------------------------

MaxPlanItems == 2

\* The placements an oracle answer is made of.
PlacementA(i) ==
    [task_id |-> i, start_time |-> <<10, 30, 0>>, end_time |-> <<11, 30, 0>>,
     is_meeting |-> FALSE]
PlacementB(i) ==
    [task_id |-> i, start_time |-> <<11, 0, 0>>, end_time |-> <<12, 0, 0>>,
     is_meeting |-> FALSE]
RejectedPlacement(i) ==
    [task_id |-> i, start_time |-> <<25, 0, 0>>, end_time |-> <<26, 0, 0>>,
     is_meeting |-> FALSE]
\* The window of the fixed meeting, given back as it is; the output format
\* asked of the oracle has no is_meeting key.
KeptPlacement(i) ==
    [task_id |-> i, start_time |-> <<10, 0, 0>>, end_time |-> <<11, 0, 0>>,
     is_meeting |-> FALSE]

\* The oracle's answers: no JSON, a JSON value that is no array, the empty
\* array, one placement, two placements of different tasks whose windows
\* overlap, a placement followed by one the database rejects, and the fixed
\* meeting's own window for the first item.
OracleAnswers ==
    { [kind |-> "unparseable", entries |-> <<>>],
      [kind |-> "scalar", entries |-> <<>>],
      [kind |-> "array", entries |-> <<>>] }
    \cup { [kind |-> "array", entries |-> <<PlacementA(i)>>] : i \in 1..MaxPlanItems }
    \cup { [kind |-> "array", entries |-> <<PlacementB(i)>>] : i \in 1..MaxPlanItems }
    \cup { [kind |-> "array", entries |-> <<PlacementA(1), PlacementB(2)>>],
           [kind |-> "array", entries |-> <<PlacementA(1), RejectedPlacement(2)>>],
           [kind |-> "array", entries |-> <<KeptPlacement(1)>>] }

\* A to-do of user 1 that is not scheduled yet.
CreateTodo ==
    /\ Len(tasks) < MaxPlanItems
    /\ SaveTodoOnly(1, None, None, <<>>, <<>>, "none")
    /\ UNCHANGED sessions

\* A meeting of user 1 today from 10:00 to 11:00.
CreateFixedMeeting ==
    /\ Len(tasks) < MaxPlanItems
    /\ ScheduleMeeting(1, today, <<10, 0>>, <<11, 0>>, None, <<>>, <<>>, <<>>, TRUE,
                       2 * HOUR, "none", "ok", "ok")
    /\ UNCHANGED sessions

\* A task of another user today, or a task of user 1 on another day.
CreateOtherTask ==
    /\ Len(tasks) < MaxPlanItems
    /\ \E c \in {<<2, today>>, <<1, today + 1>>} :
          AddTaskToCalendar(c[1], None, c[2], <<14, 0>>, <<16, 0>>, <<>>, "none", "ok")
    /\ UNCHANGED sessions

Complete ==
    /\ \E task_id \in 1..MaxPlanItems : MarkTaskComplete(task_id)
    /\ UNCHANGED sessions

GeneratePlan ==
    /\ \E oracle \in OracleAnswers : DistinctTodaysPlanPage(1, oracle)
    /\ UNCHANGED sessions

NextPlan == CreateTodo \/ CreateFixedMeeting \/ CreateOtherTask \/ Complete \/ GeneratePlan

SpecPlan == Init /\ [][NextPlan]_vars

\* ------------------------------------------------------------------------
\* Tasks with a calendar event, re-planned
\* ------------------------------------------------------------------------

\* A task of user 1 today from 14:00 to 16:00, with its calendar event.
CreateFlexibleTask ==
    /\ Len(tasks) < MaxPlanItems
    /\ AddTaskToCalendar(1, None, today, <<14, 0>>, <<16, 0>>, <<>>, "none", "ok")
    /\ UNCHANGED sessions

NextMove == CreateFlexibleTask \/ CreateTodo \/ GeneratePlan

SpecMove == Init /\ [][NextMove]_vars

\* ------------------------------------------------------------------------
\* Events and their external mirror
\* ------------------------------------------------------------------------

MaxEvents == 1

\* add_task_to_calendar by user 1: <<fail, push>>.
SyncTaskCalls == { <<"none", "ok">>, <<"none", "invalid_grant">>, <<"ref", "ok">> }

\* add_collaborators_to_event on an event: <<collaborator_ids, push>>.
AttendeeCalls == { <<<<2>>, "ok">>, <<<<2>>, "error">>, <<<<>>, "ok">> }

\* generate_meeting_link on an event: <<existing_code, push>>.
LinkCalls == { <<<<>>, "ok">>, <<<<>>, "error">>, <<<<"abc-defg">>, "ok">> }

SyncTask ==
    /\ Len(calendar_events) < MaxEvents
    /\ \E c \in SyncTaskCalls :
          AddTaskToCalendar(1, None, 0, <<14, 0>>, <<16, 0>>, <<>>, c[1], c[2])
    /\ UNCHANGED sessions

SyncMeeting ==
    /\ Len(calendar_events) < MaxEvents
    /\ ScheduleMeeting(1, 0, <<10, 0>>, <<11, 0>>, None, <<>>, <<>>, <<>>, TRUE,
                       2 * HOUR, "none", "ok", "ok")
    /\ UNCHANGED sessions

UpdateAttendees ==
    /\ \E event_id \in 1..MaxEvents, c \in AttendeeCalls :
          CallAddCollaboratorsToEvent(1, event_id, c[1], <<>>, c[2])
    /\ UNCHANGED sessions

GenerateLink ==
    /\ \E event_id \in 1..MaxEvents, c \in LinkCalls :
          CallGenerateMeetingLink(1, event_id, c[1], c[2])
    /\ UNCHANGED sessions

ConnectOwner ==
    /\ ConnectGoogle(1)
    /\ UNCHANGED sessions

DisconnectOwner ==
    /\ DisconnectGoogle(1)
    /\ UNCHANGED sessions

NextSync ==
    SyncTask \/ SyncMeeting \/ UpdateAttendees \/ GenerateLink
    \/ ConnectOwner \/ DisconnectOwner

SpecSync == Init /\ [][NextSync]_vars

\* ------------------------------------------------------------------------
\* Events, to-dos and collaborators
\* ------------------------------------------------------------------------

MaxCollabEvents == 1

\* A user id outside the table users.
UnknownUser == 3

\* add_collaborators_to_event: <<collaborator_ids, collaborator_emails>>.
CollaboratorCalls ==
    { <<<<2>>, <<>>>>, <<<<2, 2>>, <<>>>>, <<<<>>, <<EmailOf(2)>>>>,
      <<<<2>>, <<EmailOf(2)>>>>, <<<<1, 2>>, <<>>>>, <<<<2, UnknownUser>>, <<>>>> }

\* save_todo_only: <<user, due_date, scheduled_date, start_time, end_time, fail>>.
TodoCalls ==
    { <<1, 1, None, <<9, 0>>, <<10, 0>>, "none">>,
      <<1, None, None, <<25, 0>>, <<>>, "none">>,
      <<1, None, None, <<>>, <<>>, "task">> }

CreateEvent ==
    /\ Len(calendar_events) < MaxCollabEvents
    /\ AddTaskToCalendar(1, None, 0, <<14, 0>>, <<16, 0>>, <<>>, "none", "ok")
    /\ UNCHANGED sessions

AddCollaborators ==
    /\ \E event_id \in 1..MaxCollabEvents, c \in CollaboratorCalls :
          CallAddCollaboratorsToEvent(1, event_id, c[1], c[2], "ok")
    /\ UNCHANGED sessions

SaveTodo ==
    /\ Len(tasks) <= MaxCollabEvents
    /\ \E c \in TodoCalls : SaveTodoOnly(c[1], c[2], c[3], c[4], c[5], c[6])
    /\ UNCHANGED sessions

NextCollab ==
    CreateEvent \/ AddCollaborators \/ SaveTodo \/ ConnectOwner \/ DisconnectOwner

SpecCollab == Init /\ [][NextCollab]_vars

\* ------------------------------------------------------------------------
\* Invitations to an event, repeated
\* ------------------------------------------------------------------------

MaxAttendees == 3

\* add_collaborators_to_event: <<collaborator_ids, collaborator_emails, push>>.
InviteCalls ==
    { <<<<2>>, <<>>, "ok">>, <<<<>>, <<EmailOf(2)>>, "ok">>,
      <<<<>>, <<ExternalEmail>>, "ok">>, <<<<2>>, <<ExternalEmail>>, "ok">>,
      <<<<2>>, <<ExternalEmail>>, "error">> }

\* The owner invites people to an event, as long as no external event has
\* MaxAttendees attendees.
Invite ==
    /\ \A g \in DOMAIN google_events : Len(google_events[g].attendees) < MaxAttendees
    /\ \E event_id \in 1..MaxCollabEvents, c \in InviteCalls :
          CallAddCollaboratorsToEvent(1, event_id, c[1], c[2], c[3])
    /\ UNCHANGED sessions

NextInvite == CreateEvent \/ Invite \/ ConnectOwner \/ DisconnectOwner

SpecInvite == Init /\ [][NextInvite]_vars

\* ------------------------------------------------------------------------
\* Tools executed by name
\* ------------------------------------------------------------------------

MaxToolCalls == 2

\* The tools that add a row to tasks.
CreatingTools == {"add_task_to_calendar", "save_todo_only", "schedule_meeting"}

\* What the assistant asks execute_calendar_tool to run: <<tool_name,
\* parameters>>, one call for each advertised name and one for a name that
\* is not advertised.
ToolCalls ==
    { <<"add_task_to_calendar",
        [due_date |-> None, scheduled_date |-> 0, start_time |-> <<14, 0>>,
         end_time |-> <<16, 0>>, meeting_link |-> <<>>]>>,
      <<"get_collaborators", [search_query |-> "user"]>>,
      <<"add_collaborators_to_event",
        [event_id |-> 1, collaborator_ids |-> <<2>>, collaborator_emails |-> <<>>]>>,
      <<"generate_meeting_link", [event_id |-> 1, existing_code |-> <<"abc-defg">>]>>,
      <<"save_todo_only",
        [due_date |-> 1, scheduled_date |-> None, start_time |-> <<>>,
         end_time |-> <<>>]>>,
      <<"schedule_meeting",
        [scheduled_date |-> 0, start_time |-> <<10, 0>>, end_time |-> <<11, 0>>,
         due_date |-> None, collaborator_ids |-> <<>>, collaborator_emails |-> <<>>,
         meeting_code |-> <<>>, auto_generate_link |-> TRUE,
         duration_hours |-> 2 * HOUR]>>,
      <<"get_calendar_events", [start_date |-> 0, end_date |-> 1]>>,
      <<"check_schedule_conflicts",
        [scheduled_date |-> 0, start_time |-> <<10, 30>>, end_time |-> <<11, 30>>,
         duration_hours |-> 0]>>,
      <<"delete_event", [event_id |-> 1]>> }

ExecuteTool ==
    /\ \E c \in ToolCalls :
          /\ c[1] \in CreatingTools => Len(tasks) < MaxToolCalls
          /\ ExecuteCalendarTool(1, c[1], c[2])
    /\ UNCHANGED sessions

NextTools == ExecuteTool \/ ConnectOwner \/ DisconnectOwner

SpecTools == Init /\ [][NextTools]_vars

\* ------------------------------------------------------------------------
\* Sessions of one user that check a slot and then book it
\* ------------------------------------------------------------------------

\* The windows the sessions propose, all on day 0: <<start_time, end_time>>.
RaceWindows ==
    { <<<<10, 0>>, <<11, 0>>>>, <<<<10, 30>>, <<11, 30>>>>, <<<<11, 0>>, <<12, 0>>>>,
      <<<<14, 0>>, <<15, 0>>>> }

\* Session p calls check_schedule_conflicts for a window and keeps the
\* report's has_time_overlap.  The handler is one SELECT on its own
\* connection (execute_query); it takes no lock and leaves no trace.
SessionCheck(p) ==
    /\ sessions[p].pc = "idle"
    /\ \E w \in RaceWindows :
          /\ CheckScheduleConflicts(1, 0, w[1], w[2], 0)
          /\ sessions' = [sessions EXCEPT ![p] =
                 [pc |-> "checked", window |-> w,
                  has_time_overlap |-> response'.has_time_overlap,
                  task_id |-> None]]

\* Session p, told that its window is free, calls add_task_to_calendar for
\* it.  The handler inserts without looking at the other rows of the day.
SessionCreateReserving(p) ==
    /\ sessions[p].pc = "checked" /\ ~sessions[p].has_time_overlap
    /\ IF \E i \in ConflictQuery(tasks, 1, 0) :
             IsTimeOverlap(ParseTime(sessions[p].window[1]),
                           ParseTime(sessions[p].window[2]),
                           tasks[i].start_time, tasks[i].end_time)
       THEN /\ sessions' = [sessions EXCEPT ![p].pc = "refused"]
            /\ request' = [op |-> "add_task_to_calendar", user_id |-> 1]
            /\ response' = [op |-> "add_task_to_calendar", success |-> FALSE,
                            error |-> "Failed to add task"]
            /\ UNCHANGED <<tasks, calendar_events, meeting_links, event_collaborators,
                           user_google_accounts, google_events, today>>
       ELSE /\ AddTaskToCalendar(1, None, 0, sessions[p].window[1],
                                 sessions[p].window[2], <<>>, "none", "ok")
            /\ sessions' = [sessions EXCEPT ![p].pc = "created",
                                            ![p].task_id = response'.task_id]
SessionCreate(p) ==
    /\ sessions[p].pc = "checked" /\ ~sessions[p].has_time_overlap
    /\ AddTaskToCalendar(1, None, 0, sessions[p].window[1], sessions[p].window[2],
                         <<>>, "none", "ok")
    /\ sessions' = [sessions EXCEPT
                      ![p].pc = IF response'.success THEN "created" ELSE "refused",
                      ![p].task_id = IF response'.success THEN response'.task_id
                                     ELSE None]

Check == \E p \in Sessions : SessionCheck(p)

Book == \E p \in Sessions : SessionCreate(p)

NextRace == Check \/ Book

SpecRace == Init /\ [][NextRace]_vars

\* ------------------------------------------------------------------------
\* Properties of check_schedule_conflicts
\* ------------------------------------------------------------------------

\* The last call was check_schedule_conflicts and it returned a report.
IsReport == response.op = "check_schedule_conflicts" /\ response.success

\* The proposal's start and end as times of day (None when absent).
ProposedStart == ParsedStartTime(request.start_time)
ProposedEnd ==
    ParsedEndTime(request.start_time, request.end_time,
                  DefaultedDuration(request.duration_hours))

\* The listed item k and its row of tasks.
Listed(k) == response.conflicts[k]
RowOf(k) == tasks[response.conflicts[k].task_id]
IsTimed(row) == row.start_time # None /\ row.end_time # None

\* C1: for a proposal with a start s and an end e, a listed item with a start
\* s' and an end e' is flagged is_time_overlap iff s' < e and e' > s; an item
\* that only touches the proposal at an endpoint is not flagged.
C1_OverlapFlagIsHalfOpen ==
    (IsReport /\ ProposedStart # None /\ ProposedEnd # None) =>
        \A k \in DOMAIN response.conflicts :
            IsTimed(RowOf(k)) =>
                /\ Listed(k).is_time_overlap <=>
                     (RowOf(k).start_time < ProposedEnd /\ RowOf(k).end_time > ProposedStart)
                /\ (RowOf(k).start_time = ProposedEnd \/ RowOf(k).end_time = ProposedStart)
                     => ~Listed(k).is_time_overlap

\* A report that flags one item and lists, unflagged, an item that ends
\* exactly where the proposal starts.
C1_Witness ==
    /\ IsReport /\ ProposedStart # None /\ ProposedEnd # None
    /\ \E k \in DOMAIN response.conflicts :
          /\ IsTimed(RowOf(k)) /\ RowOf(k).end_time = ProposedStart
          /\ ~Listed(k).is_time_overlap
    /\ \E k \in DOMAIN response.conflicts : Listed(k).is_time_overlap

\* C2: the report lists exactly the caller's tasks scheduled on the proposed
\* date, each once; has_conflicts iff the list is non-empty; has_time_overlap
\* iff some listed item is flagged; an item without a start or an end is
\* listed but never flagged.
C2_ReportListsSameDayItems ==
    IsReport =>
        /\ {Listed(k).task_id : k \in DOMAIN response.conflicts}
             = {i \in DOMAIN tasks : /\ tasks[i].user_id = request.user_id
                                     /\ tasks[i].scheduled_date = request.scheduled_date}
        /\ \A j, k \in DOMAIN response.conflicts :
              j # k => Listed(j).task_id # Listed(k).task_id
        /\ response.has_conflicts <=> (Len(response.conflicts) > 0)
        /\ response.has_time_overlap <=>
              (\E k \in DOMAIN response.conflicts : Listed(k).is_time_overlap)
        /\ \A k \in DOMAIN response.conflicts :
              ~IsTimed(RowOf(k)) => ~Listed(k).is_time_overlap

\* A report that lists an untimed item and no overlap while another user has
\* an overlapping item on the same date.
C2_Witness ==
    /\ IsReport /\ ProposedStart # None /\ ProposedEnd # None
    /\ response.has_conflicts /\ ~response.has_time_overlap
    /\ \E k \in DOMAIN response.conflicts : ~IsTimed(RowOf(k))
    /\ \E i \in DOMAIN tasks :
          /\ tasks[i].user_id # request.user_id
          /\ tasks[i].scheduled_date = request.scheduled_date
          /\ IsTimed(tasks[i])
          /\ tasks[i].start_time < ProposedEnd /\ tasks[i].end_time > ProposedStart

\* The window an item occupies, as seconds from the start of its
\* scheduled_date: its end is on the next day when end_time < start_time.
WindowEnd(start_time, end_time) ==
    IF end_time < start_time THEN end_time + DAY ELSE end_time

\* The window [t, t + duration) overlaps the window of the timed item `row`.
SlotOverlapsItem(t, duration, row) ==
    /\ t < WindowEnd(row.start_time, row.end_time)
    /\ t + duration > row.start_time

\* The slot starting at t is free of every timed item listed in the report.
SlotTrulyFree(t) ==
    \A k \in DOMAIN response.conflicts :
        IsTimed(RowOf(k)) =>
            ~SlotOverlapsItem(t, DefaultedDuration(request.duration_hours), RowOf(k))

SuggestedStarts == {ParseTime(response.suggested_times[k]) : k \in DOMAIN response.suggested_times}

\* C3: every start t in suggested_times is such that [t, t + duration_hours)
\* overlaps the [start, end) window of no timed item reported in conflicts.
C3_SuggestedSlotsAreFree ==
    IsReport => \A t \in SuggestedStarts : SlotTrulyFree(t)

\* The starts of the 30-minute grid inside [09:00, 18:00).
GridStarts == {DayStart + k * SlotStep : k \in 0..((DayEnd - DayStart) \div SlotStep - 1)}

\* C4: suggested_times has at most 3 entries, strictly ascending, each on the
\* 30-minute grid inside [09:00, 18:00), and they are exactly the earliest
\* free grid starts.
C4_SuggestedTimesAreEarliestFree ==
    (IsReport /\ response.has_time_overlap) =>
        LET times == response.suggested_times
            free == {g \in GridStarts : SlotTrulyFree(g)}
        IN /\ Len(times) <= 3
           /\ \A j, k \in DOMAIN times : j < k => ParseTime(times[j]) < ParseTime(times[k])
           /\ SuggestedStarts \subseteq GridStarts
           /\ SuggestedStarts \subseteq free
           /\ Cardinality(SuggestedStarts) = (IF Cardinality(free) < 3 THEN Cardinality(free) ELSE 3)
           /\ \A g \in free \ SuggestedStarts : \A t \in SuggestedStarts : t < g

\* The part of C4 about the list's shape: at most 3 entries, strictly
\* ascending, on the grid inside the business window.
SuggestedTimesShape ==
    IsReport =>
        LET times == response.suggested_times
        IN /\ Len(times) <= 3
           /\ \A j, k \in DOMAIN times : j < k => ParseTime(times[j]) < ParseTime(times[k])
           /\ SuggestedStarts \subseteq GridStarts

\* The days among the 7 after the proposed date on which the caller has no task.
EmptyDays ==
    {d \in (request.scheduled_date + 1)..(request.scheduled_date + 7) :
        ~ \E i \in DOMAIN tasks :
              tasks[i].user_id = request.user_id /\ tasks[i].scheduled_date = d}

SuggestedDays == {response.suggested_dates[k] : k \in DOMAIN response.suggested_dates}

\* C5: suggested_dates holds at most 3 dates in strictly ascending order, each
\* 1 to 7 days after the proposed date and each a day without any item of the
\* caller; when no same-day slot is free they are the earliest such days.
C5_SuggestedDatesAreEarliestEmpty ==
    IsReport =>
        LET dates == response.suggested_dates
        IN /\ Len(dates) <= 3
           /\ \A j, k \in DOMAIN dates : j < k => dates[j] < dates[k]
           /\ SuggestedDays \subseteq EmptyDays
           /\ (response.has_time_overlap /\ response.suggested_times = <<>>) =>
                 /\ Len(dates) = (IF Cardinality(EmptyDays) < 3
                                  THEN Cardinality(EmptyDays) ELSE 3)
                 /\ \A d \in EmptyDays \ SuggestedDays : \A x \in SuggestedDays : x < d

\* No same-day slot is free, the day after the proposed date is occupied and
\* is passed over, and three later days are suggested.
C5_Witness ==
    /\ IsReport /\ response.has_time_overlap /\ response.suggested_times = <<>>
    /\ Len(response.suggested_dates) = 3
    /\ request.scheduled_date + 1 \notin SuggestedDays

\* C6: a report with has_time_overlap false has suggested_times and
\* suggested_dates both empty.
C6_NoSuggestionsWithoutOverlap ==
    (IsReport /\ ~response.has_time_overlap) =>
        /\ response.suggested_times = <<>>
        /\ response.suggested_dates = <<>>

\* C8: the overnight rollover is applied wherever windows are compared or
\* computed: check_schedule_conflicts flags a timed item iff its window
\* overlaps the proposal's, each window ending on the next day when its end
\* is earlier than its start, and every external event pushed by
\* add_task_to_calendar ends no earlier than it starts.
C8_RolloverAppliedEverywhere ==
    /\ (IsReport /\ ProposedStart # None /\ ProposedEnd # None) =>
          \A k \in DOMAIN response.conflicts :
              IsTimed(RowOf(k)) =>
                  (Listed(k).is_time_overlap <=>
                     /\ RowOf(k).start_time < WindowEnd(ProposedStart, ProposedEnd)
                     /\ WindowEnd(RowOf(k).start_time, RowOf(k).end_time) > ProposedStart)
    /\ \A g \in DOMAIN google_events :
          google_events[g].summary = "task" => google_events[g].end >= google_events[g].start

\* The second half of C8 alone: add_task_to_calendar's event end instant is
\* not earlier than its start instant.
TaskEventEndsAfterStart ==
    \A g \in DOMAIN google_events :
        google_events[g].summary = "task" => google_events[g].end >= google_events[g].start

\* The length of the proposal's own window, from its start to its end.
ProposalLength == WindowEnd(ProposedStart, ProposedEnd) - ProposedStart

\* The call gave both a start_time and an end_time.
ProposalHasBothTimes == request.start_time # <<>> /\ request.end_time # <<>>

\* C29: when both start_time and end_time are given, every start t in
\* suggested_times is free for a window as long as the proposal's own:
\* [t, t + (end_time - start_time)) overlaps no timed item listed in
\* conflicts, whatever duration_hours is.
C29_SuggestedSlotsFitTheProposal ==
    (IsReport /\ ProposalHasBothTimes) =>
        \A t \in SuggestedStarts :
            \A k \in DOMAIN response.conflicts :
                IsTimed(RowOf(k)) => ~SlotOverlapsItem(t, ProposalLength, RowOf(k))

\* The part of C29 that holds: when every listed item has times in whole
\* minutes and ends after it starts, and no scanned slot crosses midnight, a
\* proposal no longer than the defaulted duration_hours fits every suggested
\* start.
SuggestedSlotsFitShortProposals ==
    (/\ IsReport /\ ProposalHasBothTimes
     /\ ProposalLength <= DefaultedDuration(request.duration_hours)
     /\ DayEnd + DefaultedDuration(request.duration_hours) <= DAY
     /\ \A k \in DOMAIN response.conflicts :
           IsTimed(RowOf(k)) =>
               /\ RowOf(k).start_time % MINUTE = 0 /\ RowOf(k).end_time % MINUTE = 0
               /\ RowOf(k).start_time <= RowOf(k).end_time) =>
        \A t \in SuggestedStarts :
            \A k \in DOMAIN response.conflicts :
                IsTimed(RowOf(k)) => ~SlotOverlapsItem(t, ProposalLength, RowOf(k))

\* ------------------------------------------------------------------------
\* Properties of add_task_to_calendar and schedule_meeting
\* ------------------------------------------------------------------------

\* The call's time strings parse.
RequestTimesValid ==
    /\ request.start_time # <<>> => ValidTimeStr(request.start_time)
    /\ request.end_time # <<>> => ValidTimeStr(request.end_time)

\* The last call was schedule_meeting and its external event was created.
MeetingPushed ==
    /\ response.op = "schedule_meeting" /\ response.success
    /\ response.google_event_id # None

PushedEvent == google_events[response.google_event_id]
MeetingTask == tasks[calendar_events[response.event_id].task_id]
RequestStartInstant == request.scheduled_date * DAY + ParseTime(request.start_time)

\* C7: schedule_meeting's event end instant is scheduled_date at end_time,
\* moved to the next day exactly when end_time < start_time, and such a call
\* is not rejected; without an end_time and with duration_hours in (0, 24)
\* the end instant is exactly duration_hours after the start instant, and is
\* what the stored scheduled_date and end_time give back under the
\* rollover rule.
C7_MeetingEndInstant ==
    /\ (response.op = "schedule_meeting" /\ request.fail = "none"
        /\ ValidTimeStr(request.start_time) /\ RequestTimesValid) => response.success
    /\ MeetingPushed =>
          /\ PushedEvent.start = RequestStartInstant
          /\ request.end_time # <<>> =>
                PushedEvent.end =
                    request.scheduled_date * DAY + ParseTime(request.end_time)
                    + (IF ParseTime(request.end_time) < ParseTime(request.start_time)
                       THEN DAY ELSE 0)
          /\ (request.end_time = <<>> /\ request.duration_hours > 0
              /\ request.duration_hours < DAY) =>
                /\ PushedEvent.end = RequestStartInstant + request.duration_hours
                /\ PushedEvent.end =
                     (MeetingTask.scheduled_date
                        + (IF MeetingTask.end_time < MeetingTask.start_time THEN 1 ELSE 0)) * DAY
                     + MeetingTask.end_time

\* A meeting scheduled without an end_time whose derived end falls on the
\* next day was pushed to the external calendar.
C7_Witness ==
    /\ MeetingPushed /\ request.end_time = <<>>
    /\ MeetingTask.end_time < MeetingTask.start_time
    /\ DateOf(PushedEvent.end) = request.scheduled_date + 1

\* Every local write the add_task_to_calendar call makes before the sync
\* step succeeded.
TaskLocalWritesSucceeded ==
    /\ request.fail \notin {"task", "event"}
    /\ ~(request.fail = "link" /\ request.meeting_link # <<>>)

\* C9: after an add_task_to_calendar call whose local writes succeed, the
\* ScheduleItem row and the CalendarEvent row both exist and the call returns
\* success with their ids, whatever the external sync outcome.
C9_LocalRowsSurviveSync ==
    (response.op = "add_task_to_calendar" /\ RequestTimesValid
     /\ TaskLocalWritesSucceeded) =>
        /\ response.success
        /\ response.task_id \in DOMAIN tasks
        /\ tasks[response.task_id].user_id = request.user_id
        /\ response.event_id \in DOMAIN calendar_events
        /\ calendar_events[response.event_id].task_id = response.task_id
        /\ calendar_events[response.event_id].user_id = request.user_id

\* A call by a connected user whose external push failed, with both rows
\* stored and success returned.
C9_Witness ==
    /\ response.op = "add_task_to_calendar" /\ response.success
    /\ request.creds /\ request.push = "invalid_grant"
    /\ response.google_event_id = None
    /\ response.task_id \in DOMAIN tasks
    /\ response.event_id \in DOMAIN calendar_events

\* Rows of tasks and calendar_events are never removed or rolled back.
LocalRowsNeverRemoved ==
    [][/\ Len(tasks') >= Len(tasks)
       /\ Len(calendar_events') >= Len(calendar_events)
       /\ \A i \in DOMAIN tasks : tasks'[i].task_id = tasks[i].task_id
       /\ \A i \in DOMAIN calendar_events :
             calendar_events'[i].event_id = calendar_events[i].event_id]_vars

SyncStatusPhrases == {SyncedPhrase, NotConnectedPhrase, ExpiredPhrase, SyncFailedPhrase}

\* C10: every successful response of add_task_to_calendar and schedule_meeting
\* states the external mirror's status in its message.
C10_CreationStatesSyncStatus ==
    (response.op \in {"add_task_to_calendar", "schedule_meeting"} /\ response.success) =>
        \E k \in DOMAIN response.message : response.message[k] \in SyncStatusPhrases

\* The part of C10 about add_task_to_calendar alone.
TaskResponseStatesSyncStatus ==
    (response.op = "add_task_to_calendar" /\ response.success) =>
        \E k \in DOMAIN response.message : response.message[k] \in SyncStatusPhrases

\* ------------------------------------------------------------------------
\* Properties of the external mirror
\* ------------------------------------------------------------------------

\* The external events created on behalf of a calendar_events row.
ExternalEventsOf(event_id) ==
    {g \in DOMAIN google_events : google_events[g].for_event = event_id}

\* C11: at most one external event is ever created on behalf of an event_id;
\* an attendee update or a link generation changes the external event the
\* row refers to and inserts none, so every external event belongs to a row
\* and a row with a reference has exactly the referenced one.
C11_OneExternalEventPerEvent ==
    /\ \A g \in DOMAIN google_events : google_events[g].for_event \in DOMAIN calendar_events
    /\ \A e \in DOMAIN calendar_events :
          /\ Cardinality(ExternalEventsOf(e)) <= 1
          /\ calendar_events[e].google_event_ref # None =>
                ExternalEventsOf(e) = {calendar_events[e].google_event_ref}

\* An attendee update went through to the external event of a mirrored row.
C11_Witness ==
    /\ response.op = "add_collaborators_to_event" /\ response.success
    /\ response.google_synced /\ response.added_count > 0
    /\ calendar_events[request.event_id].google_event_ref # None
    /\ google_events[calendar_events[request.event_id].google_event_ref].attendees # <<>>

\* C12: once google_event_ref of a row is set it never changes and is never
\* reset to null, and it is only ever set to the external event that a
\* successful push created for that row.
C12_ReferenceSetOnceAfterPush ==
    [][\A e \in DOMAIN calendar_events' :
          /\ (e \in DOMAIN calendar_events /\ calendar_events[e].google_event_ref # None) =>
                calendar_events'[e].google_event_ref = calendar_events[e].google_event_ref
          /\ calendar_events'[e].google_event_ref # None =>
                /\ calendar_events'[e].google_event_ref \in DOMAIN google_events'
                /\ google_events'[calendar_events'[e].google_event_ref].for_event = e]_vars

\* A mirrored row keeps its reference after its owner disconnected and a
\* later link generation failed for lack of credentials.
C12_Witness ==
    /\ response.op = "generate_meeting_link" /\ ~response.success
    /\ ~HasCredentials(request.user_id)
    /\ request.event_id \in DOMAIN calendar_events
    /\ calendar_events[request.event_id].google_event_ref # None

\* ------------------------------------------------------------------------
\* Properties of completion and the Day Re-Planner
\* ------------------------------------------------------------------------

\* C13: a row whose status is completed keeps that status in every step.
C13_CompletionIsTerminal ==
    [][\A i \in DOMAIN tasks :
          tasks[i].status = "completed" => tasks'[i].status = "completed"]_vars

\* The rows the last re-plan wrote: those named by an entry of the proposal.
WrittenByPlan ==
    {i \in DOMAIN tasks :
        \E k \in DOMAIN request.oracle.entries : request.oracle.entries[k].task_id = i}

\* The requesting user's fixed meetings of today that the run did not write.
FixedMeetings ==
    {j \in DOMAIN tasks \ WrittenByPlan :
        /\ tasks[j].user_id = request.user_id
        /\ tasks[j].status = "meeting"
        /\ tasks[j].scheduled_date = today
        /\ tasks[j].start_time # None /\ tasks[j].end_time # None}

\* The half-open overlap test on the windows of two rows.
WindowsOverlap(a, b) == a.start_time < b.end_time /\ a.end_time > b.start_time

\* C14: after a re-plan that committed, no two windows written by the run
\* overlap each other and none overlaps a fixed meeting.
C14_CommittedPlanHasNoOverlap ==
    (response.op = "generate_plan" /\ response.success) =>
        \A i \in WrittenByPlan :
            \A j \in (WrittenByPlan \cup FixedMeetings) \ {i} :
                ~WindowsOverlap(tasks[i], tasks[j])

\* C15: a re-plan changes no row outside the today-set fetched for the
\* requesting user.
C15_PlanWritesOnlyTodaySet ==
    [][request'.op = "generate_plan" =>
          \A i \in DOMAIN tasks :
              i \notin FetchTodaysItems(tasks, request'.user_id, today) =>
                  tasks'[i] = tasks[i]]_vars

\* C16: when the oracle's answer cannot be parsed, the re-plan changes no
\* task and the page shows that no schedule was generated.
C16_UnparseableLeavesDayUnchanged ==
    [][(request'.op = "generate_plan" /\ request'.oracle.kind = "unparseable") =>
          /\ tasks' = tasks
          /\ ~response'.success
          /\ FetchTodaysItems(tasks, request'.user_id, today) # {} =>
                response'.shown = "AI couldn't generate a schedule"]_vars

\* The oracle was asked about a day with an unplaced item, answered nothing
\* parseable, and the item is still unplaced.
C16_Witness ==
    /\ response.op = "generate_plan"
    /\ request.oracle.kind = "unparseable"
    /\ response.shown = "AI couldn't generate a schedule"
    /\ \E i \in request.items : tasks[i].status = "todo" /\ tasks[i].start_time = None

\* ------------------------------------------------------------------------
\* Properties of to-dos, collaborators and links
\* ------------------------------------------------------------------------

\* The step is a call of the tool `op` (connecting and disconnecting are the
\* only steps that leave request alone, and they change the accounts).
ToolStep(op) == request'.op = op /\ user_google_accounts' = user_google_accounts

\* C17: save_todo_only leaves calendar_events, meeting_links and the external
\* calendar unchanged; when it succeeds it has appended exactly one row to
\* tasks, with status todo, and otherwise tasks is unchanged.
C17_SaveTodoTouchesTasksOnly ==
    [][ToolStep("save_todo_only") =>
          /\ calendar_events' = calendar_events
          /\ meeting_links' = meeting_links
          /\ google_events' = google_events
          /\ IF response'.success
             THEN /\ Len(tasks') = Len(tasks) + 1
                  /\ SubSeq(tasks', 1, Len(tasks)) = tasks
                  /\ tasks'[Len(tasks')].status = "todo"
                  /\ response'.task_id = tasks'[Len(tasks')].task_id
             ELSE tasks' = tasks]_vars

\* A connected user saved a to-do: the row is there with status todo, no
\* calendar_events row belongs to it and nothing was pushed for it.
C17_Witness ==
    /\ response.op = "save_todo_only" /\ response.success
    /\ request.creds
    /\ tasks[response.task_id].status = "todo"
    /\ \A e \in DOMAIN calendar_events : calendar_events[e].task_id # response.task_id
    /\ Len(google_events) <= Len(calendar_events)

\* The last call was an attendee update, or a link generation without
\* existing_code, on a row that has no external reference.
CalledWithoutReference ==
    /\ response.op \in {"add_collaborators_to_event", "generate_meeting_link"}
    /\ response.op = "generate_meeting_link" => request.existing_code = <<>>
    /\ request.event_id \in DOMAIN calendar_events
    /\ calendar_events[request.event_id].google_event_ref = None

\* C18: on a row without external reference, generate_meeting_link without
\* existing_code and add_collaborators_to_event make no external call and
\* return success = false.
C18_NoReferenceIsClearFailure ==
    CalledWithoutReference => (~request.called /\ ~response.success)

\* The parts of C18 that hold: no external call is made, and
\* generate_meeting_link returns a failure.
NoReferenceMakesNoExternalCall == CalledWithoutReference => ~request.called
LinkWithoutReferenceFails ==
    (CalledWithoutReference /\ response.op = "generate_meeting_link") => ~response.success

\* The rows of a table of collaborators for one (event_id, user_id) pair.
CollaboratorRows(ec, event_id, user_id) ==
    {k \in DOMAIN ec : ec[k].event_id = event_id /\ ec[k].user_id = user_id}

\* The users a call of add_collaborators_to_event names, by id or by e-mail.
NamedUsers(req) ==
    {req.collaborator_ids[k] : k \in DOMAIN req.collaborator_ids}
    \cup ({UserOfEmail(req.collaborator_emails[k]) : k \in DOMAIN req.collaborator_emails}
          \ {None})

\* C19: event_collaborators never holds two rows for one (event_id, user_id)
\* pair; a call of add_collaborators_to_event adds no row for a user who is
\* already attached and does not report that user as added, reports a user
\* named twice once, and succeeds whenever the event and the named users exist.
C19_CollaboratorsAreUnique ==
    [][/\ \A e \in DOMAIN calendar_events', u \in Users :
             Cardinality(CollaboratorRows(event_collaborators', e, u)) <= 1
       /\ ToolStep("add_collaborators_to_event") =>
             /\ \A u \in NamedUsers(request') :
                   CollaboratorRows(event_collaborators, request'.event_id, u) # {} =>
                      /\ CollaboratorRows(event_collaborators', request'.event_id, u)
                            = CollaboratorRows(event_collaborators, request'.event_id, u)
                      /\ response'.success =>
                            \A k \in DOMAIN response'.collaborators :
                                response'.collaborators[k].id # u
             /\ response'.success =>
                   /\ \A j, k \in DOMAIN response'.collaborators :
                         (j # k /\ response'.collaborators[j].id # None) =>
                            response'.collaborators[j].id # response'.collaborators[k].id
                   /\ response'.added_count = Len(response'.collaborators)
             /\ (request'.event_id \in DOMAIN calendar_events
                 /\ NamedUsers(request') \subseteq Users) => response'.success]_vars

\* A call named, by id and by e-mail, a user who was attached already: it
\* succeeded, added nobody, and the pair still has its one row.
C19_Witness ==
    /\ response.op = "add_collaborators_to_event" /\ response.success
    /\ response.added_count = 0
    /\ request.collaborator_ids # <<>> /\ request.collaborator_emails # <<>>
    /\ \A u \in NamedUsers(request) :
          Cardinality(CollaboratorRows(event_collaborators, request.event_id, u)) = 1

\* The meeting_links rows of an event.
LinkRows(event_id) == {k \in DOMAIN meeting_links : meeting_links[k].event_id = event_id}

\* An event has at most one meeting_links row.
AtMostOneLinkPerEvent ==
    \A e \in DOMAIN calendar_events : Cardinality(LinkRows(e)) <= 1

\* C20: an event has at most one meeting link, and after a successful
\* generate_meeting_link the stored row's meeting_url, meeting_code and
\* platform are the values the call returned.
C20_StoredLinkIsReturnedLink ==
    /\ AtMostOneLinkPerEvent
    /\ (response.op = "generate_meeting_link" /\ response.success) =>
          /\ LinkRows(request.event_id) # {}
          /\ \A k \in LinkRows(request.event_id) :
                /\ meeting_links[k].meeting_url = response.meeting_url
                /\ meeting_links[k].meeting_code = response.meeting_code
                /\ meeting_links[k].platform = response.platform

\* The part of C20 that holds: the stored url and code are the returned ones.
StoredUrlAndCodeAreReturned ==
    (response.op = "generate_meeting_link" /\ response.success) =>
        /\ LinkRows(request.event_id) # {}
        /\ \A k \in LinkRows(request.event_id) :
              /\ meeting_links[k].meeting_url = response.meeting_url
              /\ meeting_links[k].meeting_code = response.meeting_code

\* ------------------------------------------------------------------------
\* Properties of concurrent sessions
\* ------------------------------------------------------------------------

\* The items of two sessions, both made.
BothCreated(p, q) == sessions[p].pc = "created" /\ sessions[q].pc = "created"

\* C21: nothing between a session's check and its creation reserves the
\* slot: a session that was told has_time_overlap = false and then creates
\* always commits its item with the window it checked, whatever the other
\* sessions committed in between, so that two sessions of one user can both
\* be told false and both commit, leaving two items with overlapping windows.
C21_CheckThenCreateIsNotReserved ==
    [][\A p \in Sessions :
          (sessions[p].pc = "checked" /\ sessions'[p] # sessions[p]) =>
              /\ ~sessions[p].has_time_overlap
              /\ sessions'[p].pc = "created"
              /\ response'.success
              /\ Len(tasks') = Len(tasks) + 1
              /\ tasks'[sessions'[p].task_id].user_id = 1
              /\ tasks'[sessions'[p].task_id].scheduled_date = 0
              /\ tasks'[sessions'[p].task_id].start_time = ParseTime(sessions[p].window[1])
              /\ tasks'[sessions'[p].task_id].end_time = ParseTime(sessions[p].window[2])]_vars

\* Two sessions were both told has_time_overlap = false, both created, and
\* their two items of the same user and date have overlapping windows.
C21_Witness ==
    \E p, q \in Sessions :
        /\ p # q /\ BothCreated(p, q)
        /\ ~sessions[p].has_time_overlap /\ ~sessions[q].has_time_overlap
        /\ tasks[sessions[p].task_id].user_id = tasks[sessions[q].task_id].user_id
        /\ tasks[sessions[p].task_id].scheduled_date
              = tasks[sessions[q].task_id].scheduled_date
        /\ WindowsOverlap(tasks[sessions[p].task_id], tasks[sessions[q].task_id])

\* ------------------------------------------------------------------------
\* Properties of failing writes
\* ------------------------------------------------------------------------

\* The step is a call of add_task_to_calendar, schedule_meeting or the
\* re-planner that reported failure.
FailedWriteStep ==
    /\ request'.op \in {"add_task_to_calendar", "schedule_meeting", "generate_plan"}
    /\ user_google_accounts' = user_google_accounts
    /\ ~response'.success

\* C22: a call of add_task_to_calendar, schedule_meeting or the re-planner
\* that reports failure leaves the store as it was before the call.
C22_FailureLeavesStoreUnchanged ==
    [][FailedWriteStep =>
          /\ tasks' = tasks
          /\ calendar_events' = calendar_events
          /\ meeting_links' = meeting_links
          /\ event_collaborators' = event_collaborators]_vars

\* The part of C22 that holds: a call that fails while parsing its arguments,
\* or at its first write, changes nothing.
FailureBeforeSecondWriteChangesNothing ==
    [][(FailedWriteStep /\ request'.op # "generate_plan"
        /\ \/ request'.fail = "task"
           \/ request'.start_time # <<>> /\ ~ValidTimeStr(request'.start_time)
           \/ request'.end_time # <<>> /\ ~ValidTimeStr(request'.end_time)) =>
          /\ tasks' = tasks
          /\ calendar_events' = calendar_events
          /\ meeting_links' = meeting_links
          /\ event_collaborators' = event_collaborators]_vars

\* ------------------------------------------------------------------------
\* Properties of the Day Re-Planner on fixed items and calendar events
\* ------------------------------------------------------------------------

\* The fixed items of the today-set a re-plan step fetches: status meeting.
FixedItemsOfStep ==
    {i \in FetchTodaysItems(tasks, request'.user_id, today) : tasks[i].status = "meeting"}

\* C23: a Day Re-Planner run leaves start_time, end_time, scheduled_date and
\* status of every fixed item of today's set unchanged, whatever the oracle
\* returns.
C23_FixedItemsAreNotRePlanned ==
    [][request'.op = "generate_plan" =>
          \A i \in FixedItemsOfStep :
              /\ tasks'[i].start_time = tasks[i].start_time
              /\ tasks'[i].end_time = tasks[i].end_time
              /\ tasks'[i].scheduled_date = tasks[i].scheduled_date
              /\ tasks'[i].status = tasks[i].status]_vars

\* The oracle's entries that name a fixed item give it the window it has.
OracleKeepsFixedItems ==
    \A k \in DOMAIN request'.oracle.entries :
        LET entry == request'.oracle.entries[k]
        IN entry.task_id \in FixedItemsOfStep =>
              /\ ValidTimeStr(entry.start_time) /\ ValidTimeStr(entry.end_time)
              /\ ParseTime(entry.start_time) = tasks[entry.task_id].start_time
              /\ ParseTime(entry.end_time) = tasks[entry.task_id].end_time

\* C23 for an oracle that does not move the fixed items.
FixedItemsSurviveAnObedientOracle ==
    [][(request'.op = "generate_plan" /\ OracleKeepsFixedItems) =>
          \A i \in FixedItemsOfStep :
              /\ tasks'[i].start_time = tasks[i].start_time
              /\ tasks'[i].end_time = tasks[i].end_time
              /\ tasks'[i].scheduled_date = tasks[i].scheduled_date
              /\ tasks'[i].status = tasks[i].status]_vars

\* The part of C23 that holds: a fixed item no entry names is left alone.
UnnamedFixedItemsAreUntouched ==
    [][request'.op = "generate_plan" =>
          \A i \in FixedItemsOfStep :
              (\A k \in DOMAIN request'.oracle.entries :
                   request'.oracle.entries[k].task_id # i) => tasks'[i] = tasks[i]]_vars

\* C28: a calendar_events row that has a backing task carries the task's
\* scheduled_date, start_time and end_time, after creation and after any
\* re-plan that moves the task.
C28_EventAgreesWithBackingTask ==
    \A e \in DOMAIN calendar_events :
        calendar_events[e].task_id \in DOMAIN tasks =>
            LET task == tasks[calendar_events[e].task_id]
            IN /\ calendar_events[e].scheduled_date = task.scheduled_date
               /\ calendar_events[e].start_time = task.start_time
               /\ calendar_events[e].end_time = task.end_time

\* The part of C28 that holds: the two rows agree as long as no re-plan has
\* written the task.
EventAgreesWithTaskUntilRePlanned ==
    [][(C28_EventAgreesWithBackingTask /\ request'.op # "generate_plan") =>
          C28_EventAgreesWithBackingTask']_vars

\* ------------------------------------------------------------------------
\* Properties of the sync flag and the sync indication
\* ------------------------------------------------------------------------

\* C24: a calendar_events row has is_calendar_synced = true if and only if
\* its google_event_ref is not null, whichever operation pushed it.
C24_SyncedFlagIffReference ==
    \A e \in DOMAIN calendar_events :
        calendar_events[e].is_calendar_synced
            <=> (calendar_events[e].google_event_ref # None)

\* The parts of C24 that hold: the flag is set only on rows that hold a
\* reference, and every meeting that holds a reference is flagged.
SyncedFlagImpliesReference ==
    \A e \in DOMAIN calendar_events :
        calendar_events[e].is_calendar_synced => calendar_events[e].google_event_ref # None
MeetingWithReferenceIsFlagged ==
    \A e \in DOMAIN calendar_events :
        (calendar_events[e].event_type = "meeting"
         /\ calendar_events[e].google_event_ref # None) =>
            calendar_events[e].is_calendar_synced

\* ------------------------------------------------------------------------
\* Properties of repeated invitations
\* ------------------------------------------------------------------------

\* The step repeats the add_collaborators_to_event call made just before it,
\* with the same event_id, collaborator_ids and collaborator_emails, on an
\* event that holds an external reference, both calls reaching the external
\* calendar.
RepeatedInvitation ==
    /\ request.op = "add_collaborators_to_event"
    /\ ToolStep("add_collaborators_to_event")
    /\ request'.event_id = request.event_id
    /\ request'.collaborator_ids = request.collaborator_ids
    /\ request'.collaborator_emails = request.collaborator_emails
    /\ request.event_id \in DOMAIN calendar_events
    /\ calendar_events[request.event_id].google_event_ref # None
    /\ response.success /\ response.google_synced
    /\ response'.success /\ response'.google_synced

\* C25: calling add_collaborators_to_event a second time with the same
\* collaborator_ids and collaborator_emails leaves the external event's
\* attendee list as the first call left it.
C25_RepeatedInvitationAddsNoAttendee ==
    [][RepeatedInvitation =>
          google_events'[calendar_events[request.event_id].google_event_ref].attendees
            = google_events[calendar_events[request.event_id].google_event_ref].attendees]_vars

\* The part of C25 that holds: a repeated call that names users of the
\* system only adds no attendee.
RepeatedInvitationOfUsersAddsNoAttendee ==
    [][(RepeatedInvitation
        /\ \A k \in DOMAIN request.collaborator_emails :
               UserOfEmail(request.collaborator_emails[k]) # None) =>
          google_events'[calendar_events[request.event_id].google_event_ref].attendees
            = google_events[calendar_events[request.event_id].google_event_ref].attendees]_vars

\* The last call was a creation that returned success.
CreationSucceeded ==
    response.op \in {"add_task_to_calendar", "schedule_meeting"} /\ response.success

\* The phrase is part of the returned message.
MessageSays(phrase) == \E k \in DOMAIN response.message : response.message[k] = phrase

\* The response reports the mirror as synced.
ReportsSynced ==
    \/ response.google_event_id # None
    \/ response.op = "add_task_to_calendar" /\ response.google_synced
    \/ MessageSays(SyncedPhrase)

\* The row the call created holds an external reference.
ReferenceStored == calendar_events[response.event_id].google_event_ref # None

\* Every external event is referred to by the row it was made for.
EveryExternalEventIsReferenced ==
    \A g \in DOMAIN google_events :
        /\ google_events[g].for_event \in DOMAIN calendar_events
        /\ calendar_events[google_events[g].for_event].google_event_ref = g

\* C27: a successful add_task_to_calendar or schedule_meeting reports the
\* mirror as synced iff the created row holds a reference; a sync-failed
\* message is never returned for a row whose reference was stored; and no
\* external event is left without a stored reference.
C27_SyncIndicationAgreesWithStore ==
    /\ CreationSucceeded =>
          /\ ReportsSynced <=> ReferenceStored
          /\ MessageSays(SyncFailedPhrase) => ~ReferenceStored
    /\ EveryExternalEventIsReferenced

\* The part of C27 that holds: the same, for calls none of whose local
\* statements fails.
SyncIndicationAgreesWhenWritesSucceed ==
    (CreationSucceeded /\ request.fail = "none") =>
        /\ ReportsSynced <=> ReferenceStored
        /\ MessageSays(SyncFailedPhrase) => ~ReferenceStored
        /\ ReferenceStored <=>
              (\E g \in DOMAIN google_events : google_events[g].for_event = response.event_id)

\* The last call was a successful schedule_meeting that was given a
\* meeting_code.
MeetingWithCodeScheduled ==
    /\ response.op = "schedule_meeting" /\ response.success
    /\ request.meeting_code # <<>>

\* The code stored for a meeting_code argument: the last segment of a link,
\* else the argument itself.
CodeOf(meeting_code) ==
    IF StartsWithHttp(meeting_code) THEN LastSegment(meeting_code) ELSE meeting_code

\* C30: a successful schedule_meeting that was given a meeting_code ends with
\* a meeting_links row for the new event holding that code, for both values
\* of auto_generate_link.
C30_GivenMeetingCodeIsStored ==
    MeetingWithCodeScheduled =>
        \E k \in LinkRows(response.event_id) :
            meeting_links[k].meeting_code = CodeOf(request.meeting_code)

\* The part of C30 that holds: the code is stored when auto_generate_link is
\* false.
GivenCodeIsStoredWithoutAutoGenerate ==
    (MeetingWithCodeScheduled /\ ~request.auto_generate_link) =>
        \E k \in LinkRows(response.event_id) :
            meeting_links[k].meeting_code = CodeOf(request.meeting_code)

\* ------------------------------------------------------------------------
\* Properties of the dispatcher
\* ------------------------------------------------------------------------

\* The last call came back with the 'Unknown calendar tool' error.
UnknownToolError ==
    /\ response.op = "execute_calendar_tool" /\ ~response.success
    /\ response.error = "Unknown calendar tool"

\* C26: executing a tool name that get_calendar_tools advertises runs the
\* method of that name and never returns the 'Unknown calendar tool' error.
C26_AdvertisedToolsAreDispatched ==
    request.op \in AdvertisedTools => (~UnknownToolError /\ response.op = request.op)

\* The part of C26 that holds: every advertised name but
\* check_schedule_conflicts is dispatched to the method of that name.
OtherAdvertisedToolsAreDispatched ==
    request.op \in AdvertisedTools \ {"check_schedule_conflicts"} =>
        (~UnknownToolError /\ response.op = request.op)
====
